---------------------------- MODULE Spec2Model ----------------------------
(***************************************************************************)
(* The receipt-interpretation pipeline of backend/receipt_processor.py     *)
(* (class ReceiptProcessor): image validation and normalisation, the       *)
(* three-pass OCR selection, the regex field extractors, the keyword       *)
(* cascade of categorize_expense and the orchestrator process_receipt.     *)
(*                                                                         *)
(* Text is a sequence of characters, each character a one-character        *)
(* string; the rupee glyph U+20B9 is the single character "RUPEE".         *)
(* Python's None is the empty option None, a value v is Some(v).           *)
(* Amounts are counted in hundredths (paise): every number the regexes     *)
(* accept has at most two fraction digits, so float(...) is exact there.   *)
(***************************************************************************)
EXTENDS Integers, Sequences, FiniteSets, TLC

VARIABLES
    call,          \* the entry point under execution and its arguments
    pc,            \* position of the call: a stage of process_receipt, "called" or "returned"
    loc,           \* the local variables of process_receipt assigned so far
    ret            \* the value returned (None until the call returns)

vars == <<call, pc, loc, ret>>

-----------------------------------------------------------------------------
(* Values and character classes                                            *)

None == <<>>
Some(v) == <<v>>

\* Python truthiness of an optional string: None and "" are both falsy.
OrEmpty(m) == IF m = None THEN <<>> ELSE m[1]

MinOf(S) == CHOOSE x \in S : \A y \in S : x <= y
MaxOf(S) == CHOOSE x \in S : \A y \in S : y <= x

DigitSeq == <<"0","1","2","3","4","5","6","7","8","9">>
Digits == {DigitSeq[i] : i \in 1..10}
IsDigit(c) == c \in Digits
DigitVal(c) == CHOOSE d \in 0..9 : DigitSeq[d + 1] = c

\* str.strip() and the regex class \s, over the characters the model's texts use.
Whitespace == {" ", "\t", "\n", "\r"}

LowerMap ==
    [A |-> "a", B |-> "b", C |-> "c", D |-> "d", E |-> "e", F |-> "f", G |-> "g",
     H |-> "h", I |-> "i", J |-> "j", K |-> "k", L |-> "l", M |-> "m", N |-> "n",
     O |-> "o", P |-> "p", Q |-> "q", R |-> "r", S |-> "s", T |-> "t", U |-> "u",
     V |-> "v", W |-> "w", X |-> "x", Y |-> "y", Z |-> "z"]

Letters == DOMAIN LowerMap \cup {LowerMap[c] : c \in DOMAIN LowerMap}

\* str.lower(), character by character.
ToLower(c) == IF c \in DOMAIN LowerMap THEN LowerMap[c] ELSE c
Lower(s) == [i \in 1..Len(s) |-> ToLower(s[i])]

\* s[i:i+len(kw)] == kw
MatchAt(kw, s, i) ==
    /\ i >= 1
    /\ i + Len(kw) - 1 <= Len(s)
    /\ \A k \in 1..Len(kw) : s[i + k - 1] = kw[k]

\* Python's `kw in s` on strings: substring containment.
Contains(kw, s) == \E i \in 1..(Len(s) - Len(kw) + 1) : MatchAt(kw, s, i)

\* str.strip()
Strip(s) ==
    LET keep == {i \in 1..Len(s) : s[i] \notin Whitespace}
    IN  IF keep = {} THEN <<>> ELSE SubSeq(s, MinOf(keep), MaxOf(keep))

\* str.split(sep) for a one-character separator.
RECURSIVE Split(_, _)
Split(s, sep) ==
    LET at == {i \in 1..Len(s) : s[i] = sep}
    IN  IF at = {} THEN <<s>>
        ELSE <<SubSeq(s, 1, MinOf(at) - 1)>> \o Split(SubSeq(s, MinOf(at) + 1, Len(s)), sep)

\* str.splitlines(), for texts whose only line break is "\n": no empty last line.
SplitLines(s) ==
    LET p == Split(s, "\n")
    IN  IF p[Len(p)] = <<>> THEN SubSeq(p, 1, Len(p) - 1) ELSE p

\* sep.join(parts)
RECURSIVE Join(_, _)
Join(parts, sep) ==
    IF parts = <<>> THEN <<>>
    ELSE IF Len(parts) = 1 THEN parts[1]
    ELSE parts[1] \o sep \o Join(Tail(parts), sep)

\* int(ds) for a string of ASCII digits.
RECURSIVE ToInt(_)
ToInt(ds) ==
    IF ds = <<>> THEN 0
    ELSE ToInt(SubSeq(ds, 1, Len(ds) - 1)) * 10 + DigitVal(ds[Len(ds)])

\* The length of the run of characters of class cls that starts at s[i].
RECURSIVE RunLen(_, _, _)
RunLen(s, i, cls) ==
    IF i > Len(s) \/ s[i] \notin cls THEN 0 ELSE 1 + RunLen(s, i + 1, cls)

-----------------------------------------------------------------------------
(* categorize_expense: the keyword tables                                  *)

\* accommodation_keywords (lines 230-235)
accommodation_keywords ==
    << <<"h","o","t","e","l">>,
       <<"r","e","s","o","r","t">>,
       <<"l","o","d","g","e">>,
       <<"g","u","e","s","t"," ","h","o","u","s","e">>,
       <<"h","o","m","e","s","t","a","y">>,
       <<"s","t","a","y">>,
       <<"r","o","o","m"," ","r","e","n","t">>,
       <<"b","o","o","k","i","n","g"," ","h","o","t","e","l">>,
       <<"c","h","e","c","k","-","i","n">>,
       <<"n","i","g","h","t">>,
       <<"a","c","c","o","m","m","o","d","a","t","i","o","n">>,
       <<"i","n","n">>,
       <<"m","o","t","e","l">>,
       <<"s","u","i","t","e">>,
       <<"r","e","s","e","r","v","a","t","i","o","n">>,
       <<"h","o","s","p","i","t","a","l","i","t","y">>,
       <<"r","o","o","m","s">>,
       <<"n","i","g","h","t","s">>,
       <<"c","h","e","c","k"," ","i","n">>,
       <<"c","h","e","c","k"," ","o","u","t">>,
       <<"h","o","t","e","l"," ","b","i","l","l">>,
       <<"r","o","o","m"," ","s","e","r","v","i","c","e">>,
       <<"r","o","o","m"," ","c","h","a","r","g","e">>,
       <<"r","o","o","m"," ","r","a","t","e">>,
       <<"l","o","d","g","i","n","g">>,
       <<"a","i","r","b","n","b">> >>

\* electricity_keywords (lines 247-255)
electricity_keywords ==
    << <<"e","l","e","c","t","r","i","c","i","t","y"," ","b","i","l","l">>,
       <<"p","o","w","e","r"," ","b","i","l","l">>,
       <<"e","l","e","c","t","r","i","c"," ","b","i","l","l">>,
       <<"e","n","e","r","g","y"," ","b","i","l","l">>,
       <<"e","l","e","c","t","r","i","c","i","t","y">>,
       <<"p","o","w","e","r">>,
       <<"e","l","e","c","t","r","i","c">>,
       <<"e","n","e","r","g","y"," ","c","h","a","r","g","e">>,
       <<"p","o","w","e","r"," ","s","u","p","p","l","y">>,
       <<"b","s","e","s">>,
       <<"t","a","t","a"," ","p","o","w","e","r">>,
       <<"a","d","a","n","i"," ","p","o","w","e","r">>,
       <<"r","e","l","i","a","n","c","e"," ","e","n","e","r","g","y">>,
       <<"t","o","r","r","e","n","t"," ","p","o","w","e","r">>,
       <<"e","l","e","c","t","r","i","c","i","t","y"," ","b","o","a","r","d">>,
       <<"p","o","w","e","r"," ","b","o","a","r","d">>,
       <<"d","i","s","c","o","m">>,
       <<"e","l","e","c","t","r","i","c"," ","c","o","m","p","a","n","y">>,
       <<"p","o","w","e","r"," ","d","i","s","t","r","i","b","u","t","i","o","n">>,
       <<"e","l","e","c","t","r","i","c","a","l"," ","s","e","r","v","i","c","e","s">>,
       <<"p","o","w","e","r"," ","u","t","i","l","i","t","i","e","s">>,
       <<"e","n","e","r","g","y"," ","s","e","r","v","i","c","e","s">>,
       <<"k","w","h">>,
       <<"u","n","i","t"," ","c","o","n","s","u","m","p","t","i","o","n">>,
       <<"m","e","t","e","r"," ","r","e","a","d","i","n","g">>,
       <<"t","r","a","n","s","m","i","s","s","i","o","n"," ","c","h","a","r","g","e">>,
       <<"d","i","s","t","r","i","b","u","t","i","o","n"," ","c","h","a","r","g","e">>,
       <<"g","r","i","d">>,
       <<"t","r","a","n","s","f","o","r","m","e","r">> >>

\* food_keywords (lines 267-273)
food_keywords ==
    << <<"r","e","s","t","a","u","r","a","n","t">>,
       <<"c","a","f","e">>,
       <<"c","o","f","f","e","e">>,
       <<"t","e","a">>,
       <<"p","i","z","z","a">>,
       <<"b","u","r","g","e","r">>,
       <<"b","i","r","y","a","n","i">>,
       <<"m","e","a","l">>,
       <<"d","i","n","i","n","g">>,
       <<"e","a","t">>,
       <<"k","i","t","c","h","e","n">>,
       <<"f","o","o","d">>,
       <<"s","w","i","g","g","y">>,
       <<"z","o","m","a","t","o">>,
       <<"d","o","m","i","n","o","s">>,
       <<"m","c","d","o","n","a","l","d","s">>,
       <<"k","f","c">>,
       <<"s","u","b","w","a","y">>,
       <<"s","t","a","r","b","u","c","k","s">>,
       <<"l","u","n","c","h">>,
       <<"d","i","n","n","e","r">>,
       <<"b","r","e","a","k","f","a","s","t">>,
       <<"s","n","a","c","k">>,
       <<"b","a","k","e","r","y">>,
       <<"d","i","n","e","r">>,
       <<"b","i","s","t","r","o">>,
       <<"e","a","t","e","r","y">>,
       <<"c","a","n","t","e","e","n">>,
       <<"d","h","a","b","a">>,
       <<"t","i","f","f","i","n">>,
       <<"s","w","e","e","t">>,
       <<"j","u","i","c","e">>,
       <<"l","a","s","s","i">>,
       <<"c","h","a","i">>,
       <<"b","e","v","e","r","a","g","e">>,
       <<"i","c","e"," ","c","r","e","a","m">>,
       <<"d","e","s","s","e","r","t">> >>

\* transport_keywords (lines 284-289)
transport_keywords ==
    << <<"c","a","b">>,
       <<"t","a","x","i">>,
       <<"a","u","t","o">>,
       <<"b","u","s">>,
       <<"t","r","a","i","n">>,
       <<"m","e","t","r","o">>,
       <<"f","l","i","g","h","t">>,
       <<"a","i","r","l","i","n","e">>,
       <<"a","i","r"," ","t","i","c","k","e","t">>,
       <<"u","b","e","r">>,
       <<"o","l","a">>,
       <<"j","o","u","r","n","e","y">>,
       <<"r","a","i","l","w","a","y">>,
       <<"a","i","r","p","o","r","t">>,
       <<"p","e","t","r","o","l">>,
       <<"d","i","e","s","e","l">>,
       <<"f","u","e","l">>,
       <<"p","a","r","k","i","n","g">>,
       <<"t","o","l","l">>,
       <<"t","r","a","n","s","p","o","r","t">>,
       <<"r","i","d","e">>,
       <<"t","r","i","p">>,
       <<"i","n","d","i","g","o">>,
       <<"s","p","i","c","e","j","e","t">>,
       <<"a","i","r"," ","i","n","d","i","a">>,
       <<"r","a","i","l","w","a","y","s">>,
       <<"i","r","c","t","c">>,
       <<"s","t","a","t","i","o","n">>,
       <<"p","l","a","t","f","o","r","m">> >>

\* shopping_keywords (lines 300-305)
shopping_keywords ==
    << <<"f","a","s","h","i","o","n">>,
       <<"c","l","o","t","h","i","n","g">>,
       <<"s","h","i","r","t">>,
       <<"d","r","e","s","s">>,
       <<"s","h","o","e","s">>,
       <<"b","a","g">>,
       <<"a","c","c","e","s","s","o","r","i","e","s">>,
       <<"m","y","n","t","r","a">>,
       <<"f","l","i","p","k","a","r","t">>,
       <<"a","m","a","z","o","n">>,
       <<"r","e","l","i","a","n","c","e"," ","t","r","e","n","d","s">>,
       <<"l","i","f","e","s","t","y","l","e">>,
       <<"w","e","s","t","s","i","d","e">>,
       <<"m","a","l","l">>,
       <<"s","h","o","p">>,
       <<"s","t","o","r","e">>,
       <<"r","e","t","a","i","l">>,
       <<"a","p","p","a","r","e","l">>,
       <<"g","a","r","m","e","n","t">>,
       <<"j","e","w","e","l","r","y">>,
       <<"w","a","t","c","h">>,
       <<"s","u","n","g","l","a","s","s","e","s">>,
       <<"b","e","l","t">>,
       <<"w","a","l","l","e","t">>,
       <<"f","o","o","t","w","e","a","r">>,
       <<"h","a","n","d","b","a","g">> >>

\* healthcare_keywords (lines 316-321)
healthcare_keywords ==
    << <<"m","e","d","i","c","a","l">>,
       <<"h","o","s","p","i","t","a","l">>,
       <<"p","h","a","r","m","a","c","y">>,
       <<"m","e","d","i","c","i","n","e">>,
       <<"d","o","c","t","o","r">>,
       <<"c","l","i","n","i","c">>,
       <<"h","e","a","l","t","h">>,
       <<"a","p","o","l","l","o">>,
       <<"f","o","r","t","i","s">>,
       <<"m","a","x">>,
       <<"m","e","d","a","n","t","a">>,
       <<"c","i","p","l","a">>,
       <<"c","h","e","m","i","s","t">>,
       <<"p","r","e","s","c","r","i","p","t","i","o","n">>,
       <<"d","e","n","t","a","l">>,
       <<"d","e","n","t","i","s","t">>,
       <<"l","a","b">>,
       <<"p","a","t","h","o","l","o","g","y">>,
       <<"d","i","a","g","n","o","s","t","i","c">>,
       <<"s","c","a","n">>,
       <<"x","-","r","a","y">>,
       <<"v","a","c","c","i","n","a","t","i","o","n">>,
       <<"i","n","j","e","c","t","i","o","n">>,
       <<"s","u","r","g","e","r","y">>,
       <<"t","r","e","a","t","m","e","n","t">>,
       <<"c","o","n","s","u","l","t","a","t","i","o","n">>,
       <<"t","h","e","r","a","p","y">> >>

\* grocery_keywords (lines 332-337)
grocery_keywords ==
    << <<"g","r","o","c","e","r","y">>,
       <<"s","u","p","e","r","m","a","r","k","e","t">>,
       <<"m","a","r","t">>,
       <<"v","e","g","e","t","a","b","l","e","s">>,
       <<"f","r","u","i","t","s">>,
       <<"m","i","l","k">>,
       <<"b","r","e","a","d">>,
       <<"b","i","g"," ","b","a","z","a","a","r">>,
       <<"d","m","a","r","t">>,
       <<"r","e","l","i","a","n","c","e"," ","f","r","e","s","h">>,
       <<"s","p","e","n","c","e","r">>,
       <<"m","o","r","e">>,
       <<"s","t","a","r"," ","b","a","z","a","a","r">>,
       <<"h","o","u","s","e","h","o","l","d">>,
       <<"c","l","e","a","n","i","n","g">>,
       <<"d","e","t","e","r","g","e","n","t">>,
       <<"s","o","a","p">>,
       <<"s","h","a","m","p","o","o">>,
       <<"t","o","o","t","h","p","a","s","t","e">>,
       <<"t","i","s","s","u","e">>,
       <<"t","o","i","l","e","t"," ","p","a","p","e","r">>,
       <<"k","i","t","c","h","e","n">>,
       <<"u","t","e","n","s","i","l","s">>,
       <<"p","r","o","v","i","s","i","o","n","s">> >>

\* mobile_keywords (lines 348-352)
mobile_keywords ==
    << <<"m","o","b","i","l","e">>,
       <<"i","n","t","e","r","n","e","t">>,
       <<"w","i","f","i">>,
       <<"b","r","o","a","d","b","a","n","d">>,
       <<"d","a","t","a">>,
       <<"a","i","r","t","e","l">>,
       <<"j","i","o">>,
       <<"v","o","d","a","f","o","n","e">>,
       <<"b","s","n","l">>,
       <<"r","e","c","h","a","r","g","e">>,
       <<"t","e","l","e","c","o","m">>,
       <<"s","i","m">>,
       <<"p","h","o","n","e">>,
       <<"p","r","e","p","a","i","d">>,
       <<"p","o","s","t","p","a","i","d">>,
       <<"n","e","t","w","o","r","k">>,
       <<"c","e","l","l","u","l","a","r">>,
       <<"s","m","a","r","t","p","h","o","n","e">> >>

\* entertainment_keywords (lines 363-367)
entertainment_keywords ==
    << <<"m","o","v","i","e">>,
       <<"c","i","n","e","m","a">>,
       <<"t","h","e","a","t","r","e">>,
       <<"e","n","t","e","r","t","a","i","n","m","e","n","t">>,
       <<"g","a","m","e","s">>,
       <<"s","p","o","r","t","s">>,
       <<"p","v","r">>,
       <<"i","n","o","x">>,
       <<"b","o","o","k"," ","m","y"," ","s","h","o","w">>,
       <<"n","e","t","f","l","i","x">>,
       <<"a","m","a","z","o","n"," ","p","r","i","m","e">>,
       <<"h","o","t","s","t","a","r">>,
       <<"s","p","o","t","i","f","y">>,
       <<"y","o","u","t","u","b","e">>,
       <<"g","a","m","i","n","g">>,
       <<"c","o","n","c","e","r","t">>,
       <<"s","h","o","w">>,
       <<"e","v","e","n","t">>,
       <<"m","o","v","i","e"," ","t","i","c","k","e","t">> >>

\* office_keywords (lines 378-381)
office_keywords ==
    << <<"s","t","a","t","i","o","n","e","r","y">>,
       <<"o","f","f","i","c","e"," ","s","u","p","p","l","i","e","s">>,
       <<"p","e","n">>,
       <<"p","a","p","e","r">>,
       <<"p","r","i","n","t","e","r">>,
       <<"t","o","n","e","r">>,
       <<"o","f","f","i","c","e">>,
       <<"w","o","r","k","s","p","a","c","e">>,
       <<"c","o","-","w","o","r","k","i","n","g">> >>

\* utility_keywords (lines 392-398)
utility_keywords ==
    << <<"w","a","t","e","r"," ","b","i","l","l">>,
       <<"g","a","s"," ","b","i","l","l">>,
       <<"w","a","t","e","r"," ","s","u","p","p","l","y"," ","b","i","l","l">>,
       <<"m","u","n","i","c","i","p","a","l"," ","w","a","t","e","r">>,
       <<"w","a","t","e","r"," ","c","o","r","p","o","r","a","t","i","o","n">>,
       <<"g","a","s"," ","c","o","r","p","o","r","a","t","i","o","n">>,
       <<"m","u","n","i","c","i","p","a","l"," ","c","o","r","p","o","r","a","t","i","o","n"," ","b","i","l","l">>,
       <<"w","a","t","e","r"," ","b","o","a","r","d">>,
       <<"g","a","s"," ","c","o","m","p","a","n","y">>,
       <<"l","p","g"," ","b","i","l","l">>,
       <<"p","i","p","e","l","i","n","e"," ","g","a","s">>,
       <<"s","e","w","a","g","e"," ","b","i","l","l">>,
       <<"d","r","a","i","n","a","g","e"," ","b","i","l","l">>,
       <<"s","a","n","i","t","a","t","i","o","n"," ","b","i","l","l">>,
       <<"w","a","s","t","e"," ","m","a","n","a","g","e","m","e","n","t">>,
       <<"m","u","n","i","c","i","p","a","l"," ","t","a","x">>,
       <<"p","r","o","p","e","r","t","y"," ","t","a","x"," ","b","i","l","l">>,
       <<"w","a","t","e","r"," ","t","a","n","k"," ","c","l","e","a","n","i","n","g">> >>

\* travel_keywords (lines 409-414)
travel_keywords ==
    << <<"v","a","c","a","t","i","o","n">>,
       <<"h","o","l","i","d","a","y">>,
       <<"t","o","u","r">>,
       <<"p","a","c","k","a","g","e">>,
       <<"i","t","i","n","e","r","a","r","y">>,
       <<"s","i","g","h","t","s","e","e","i","n","g">>,
       <<"v","i","s","a">>,
       <<"p","a","s","s","p","o","r","t">>,
       <<"t","r","a","v","e","l"," ","a","g","e","n","t">>,
       <<"t","r","a","v","e","l"," ","i","n","s","u","r","a","n","c","e">>,
       <<"m","a","k","e","m","y","t","r","i","p">>,
       <<"c","l","e","a","r","t","r","i","p">>,
       <<"g","o","i","b","i","b","o">>,
       <<"y","a","t","r","a">>,
       <<"b","o","o","k","i","n","g",".","c","o","m">>,
       <<"a","g","o","d","a">>,
       <<"e","x","p","e","d","i","a">>,
       <<"t","r","a","v","e","l"," ","b","o","o","k","i","n","g">> >>

\* education_keywords (lines 425-430)
education_keywords ==
    << <<"e","d","u","c","a","t","i","o","n">>,
       <<"c","o","u","r","s","e">>,
       <<"s","c","h","o","o","l">>,
       <<"c","o","l","l","e","g","e">>,
       <<"u","n","i","v","e","r","s","i","t","y">>,
       <<"t","u","i","t","i","o","n">>,
       <<"c","o","a","c","h","i","n","g">>,
       <<"t","r","a","i","n","i","n","g">>,
       <<"w","o","r","k","s","h","o","p">>,
       <<"s","e","m","i","n","a","r">>,
       <<"c","e","r","t","i","f","i","c","a","t","i","o","n">>,
       <<"e","x","a","m">>,
       <<"a","d","m","i","s","s","i","o","n">>,
       <<"b","y","j","u">>,
       <<"u","n","a","c","a","d","e","m","y">>,
       <<"v","e","d","a","n","t","u">>,
       <<"c","o","u","r","s","e","r","a">>,
       <<"u","d","e","m","y">>,
       <<"e","d","u","c","a","t","i","o","n","a","l">>,
       <<"l","e","a","r","n","i","n","g">>,
       <<"s","t","u","d","y">> >>

\* home_keywords (lines 441-446)
home_keywords ==
    << <<"h","o","m","e">>,
       <<"f","u","r","n","i","t","u","r","e">>,
       <<"a","p","p","l","i","a","n","c","e">>,
       <<"r","e","p","a","i","r">>,
       <<"m","a","i","n","t","e","n","a","n","c","e">>,
       <<"r","e","n","o","v","a","t","i","o","n">>,
       <<"i","n","t","e","r","i","o","r">>,
       <<"d","e","c","o","r","a","t","i","o","n">>,
       <<"p","a","i","n","t","i","n","g">>,
       <<"p","l","u","m","b","i","n","g">>,
       <<"e","l","e","c","t","r","i","c","a","l"," ","w","o","r","k">>,
       <<"c","a","r","p","e","n","t","e","r">>,
       <<"m","a","i","d">>,
       <<"c","o","o","k">>,
       <<"b","a","b","y","s","i","t","t","e","r">>,
       <<"f","a","m","i","l","y">>,
       <<"c","h","i","l","d"," ","c","a","r","e">>,
       <<"i","k","e","a">>,
       <<"p","e","p","p","e","r","f","r","y">>,
       <<"u","r","b","a","n"," ","l","a","d","d","e","r">>,
       <<"g","o","d","r","e","j">> >>

\* personal_care_keywords (lines 457-462)
personal_care_keywords ==
    << <<"s","a","l","o","n">>,
       <<"s","p","a">>,
       <<"b","e","a","u","t","y">>,
       <<"h","a","i","r","c","u","t">>,
       <<"m","a","s","s","a","g","e">>,
       <<"f","a","c","i","a","l">>,
       <<"m","a","n","i","c","u","r","e">>,
       <<"p","e","d","i","c","u","r","e">>,
       <<"c","o","s","m","e","t","i","c","s">>,
       <<"m","a","k","e","u","p">>,
       <<"s","k","i","n","c","a","r","e">>,
       <<"g","r","o","o","m","i","n","g">>,
       <<"b","a","r","b","e","r">>,
       <<"p","a","r","l","o","u","r">>,
       <<"w","e","l","l","n","e","s","s">>,
       <<"f","i","t","n","e","s","s">>,
       <<"g","y","m">>,
       <<"y","o","g","a">>,
       <<"b","e","a","u","t","y"," ","s","a","l","o","n">>,
       <<"h","a","i","r"," ","s","a","l","o","n">>,
       <<"n","a","i","l"," ","s","a","l","o","n">> >>

\* gifts_keywords (lines 473-478)
gifts_keywords ==
    << <<"g","i","f","t">>,
       <<"f","e","s","t","i","v","a","l">>,
       <<"c","e","l","e","b","r","a","t","i","o","n">>,
       <<"b","i","r","t","h","d","a","y">>,
       <<"a","n","n","i","v","e","r","s","a","r","y">>,
       <<"w","e","d","d","i","n","g">>,
       <<"d","i","w","a","l","i">>,
       <<"c","h","r","i","s","t","m","a","s">>,
       <<"e","i","d">>,
       <<"h","o","l","i">>,
       <<"r","a","k","h","i">>,
       <<"v","a","l","e","n","t","i","n","e">>,
       <<"p","a","r","t","y">>,
       <<"d","e","c","o","r","a","t","i","o","n">>,
       <<"f","l","o","w","e","r","s">>,
       <<"g","r","e","e","t","i","n","g"," ","c","a","r","d">>,
       <<"p","r","e","s","e","n","t">>,
       <<"o","c","c","a","s","i","o","n">>,
       <<"g","i","f","t"," ","s","h","o","p">>,
       <<"f","l","o","w","e","r"," ","s","h","o","p">>,
       <<"b","i","r","t","h","d","a","y"," ","g","i","f","t">>,
       <<"a","n","n","i","v","e","r","s","a","r","y"," ","g","i","f","t">> >>

\* emi_keywords (lines 489-493)
emi_keywords ==
    << <<"e","m","i">>,
       <<"l","o","a","n">>,
       <<"i","n","t","e","r","e","s","t">>,
       <<"i","n","s","t","a","l","l","m","e","n","t">>,
       <<"c","r","e","d","i","t">>,
       <<"d","e","b","t">>,
       <<"r","e","p","a","y","m","e","n","t">>,
       <<"m","o","r","t","g","a","g","e">>,
       <<"f","i","n","a","n","c","e">>,
       <<"b","a","n","k">>,
       <<"h","d","f","c">>,
       <<"i","c","i","c","i">>,
       <<"s","b","i">>,
       <<"a","x","i","s">>,
       <<"k","o","t","a","k">>,
       <<"b","a","j","a","j"," ","f","i","n","s","e","r","v">>,
       <<"l","e","n","d","i","n","g">>,
       <<"b","o","r","r","o","w","i","n","g">> >>

\* investment_keywords (lines 504-509)
investment_keywords ==
    << <<"i","n","v","e","s","t","m","e","n","t">>,
       <<"s","i","p">>,
       <<"m","u","t","u","a","l"," ","f","u","n","d">>,
       <<"s","t","o","c","k">>,
       <<"s","h","a","r","e">>,
       <<"t","r","a","d","i","n","g">>,
       <<"p","o","r","t","f","o","l","i","o">>,
       <<"d","i","v","i","d","e","n","d">>,
       <<"r","e","t","u","r","n","s">>,
       <<"z","e","r","o","d","h","a">>,
       <<"g","r","o","w","w">>,
       <<"u","p","s","t","o","x">>,
       <<"p","a","y","t","m"," ","m","o","n","e","y">>,
       <<"k","u","v","e","r","a">>,
       <<"e","t","m","o","n","e","y">>,
       <<"s","y","s","t","e","m","a","t","i","c"," ","i","n","v","e","s","t","m","e","n","t">>,
       <<"e","q","u","i","t","y">>,
       <<"b","o","n","d">>,
       <<"f","d">>,
       <<"r","d">>,
       <<"p","p","f">>,
       <<"n","p","s">> >>

\* The cascade of keyword loops of categorize_expense, in source order: each rule is
\* its keyword list, the category it returns and the label its reason string carries.
Rules ==
    << [keywords |-> accommodation_keywords,
        category |-> <<"A","c","c","o","m","m","o","d","a","t","i","o","n">>,
        label |-> "accommodation"],
       [keywords |-> electricity_keywords,
        category |-> <<"B","i","l","l","s"," ","&"," ","U","t","i","l","i","t","i","e","s">>,
        label |-> "electricity"],
       [keywords |-> food_keywords,
        category |-> <<"F","o","o","d"," ","&"," ","D","i","n","i","n","g">>,
        label |-> "food"],
       [keywords |-> transport_keywords,
        category |-> <<"T","r","a","n","s","p","o","r","t","a","t","i","o","n">>,
        label |-> "transport"],
       [keywords |-> shopping_keywords,
        category |-> <<"S","h","o","p","p","i","n","g"," ","&"," ","C","l","o","t","h","e","s">>,
        label |-> "shopping"],
       [keywords |-> healthcare_keywords,
        category |-> <<"H","e","a","l","t","h","c","a","r","e">>,
        label |-> "healthcare"],
       [keywords |-> grocery_keywords,
        category |-> <<"G","r","o","c","e","r","i","e","s"," ","&"," ","H","o","u","s","e","h","o","l","d">>,
        label |-> "grocery"],
       [keywords |-> mobile_keywords,
        category |-> <<"M","o","b","i","l","e"," ","&"," ","I","n","t","e","r","n","e","t">>,
        label |-> "mobile/internet"],
       [keywords |-> entertainment_keywords,
        category |-> <<"E","n","t","e","r","t","a","i","n","m","e","n","t">>,
        label |-> "entertainment"],
       [keywords |-> office_keywords,
        category |-> <<"O","f","f","i","c","e"," ","E","x","p","e","n","s","e">>,
        label |-> "office"],
       [keywords |-> utility_keywords,
        category |-> <<"B","i","l","l","s"," ","&"," ","U","t","i","l","i","t","i","e","s">>,
        label |-> "utility"],
       [keywords |-> travel_keywords,
        category |-> <<"T","r","a","v","e","l"," ","&"," ","V","a","c","a","t","i","o","n">>,
        label |-> "travel"],
       [keywords |-> education_keywords,
        category |-> <<"E","d","u","c","a","t","i","o","n"," ","&"," ","C","o","u","r","s","e","s">>,
        label |-> "education"],
       [keywords |-> home_keywords,
        category |-> <<"H","o","m","e"," ","&"," ","F","a","m","i","l","y">>,
        label |-> "home/family"],
       [keywords |-> personal_care_keywords,
        category |-> <<"P","e","r","s","o","n","a","l"," ","C","a","r","e">>,
        label |-> "personal care"],
       [keywords |-> gifts_keywords,
        category |-> <<"G","i","f","t","s"," ","&"," ","F","e","s","t","i","v","a","l","s">>,
        label |-> "gifts/festival"],
       [keywords |-> emi_keywords,
        category |-> <<"E","M","I"," ","&"," ","L","o","a","n","s">>,
        label |-> "EMI/loan"],
       [keywords |-> investment_keywords,
        category |-> <<"I","n","v","e","s","t","m","e","n","t","s"," ","&"," ","S","I","P">>,
        label |-> "investment"] >>

Other == <<"O","t","h","e","r">>

\* A cascade loop that looks for its keywords in the receipt text only.
RECURSIVE FirstKeywordTextOnly(_, _, _, _)
FirstKeywordTextOnly(keywords, k, text_lower, merchant_lower) ==
    IF k > Len(keywords) THEN 0
    ELSE IF Contains(keywords[k], text_lower) THEN k
    ELSE FirstKeywordTextOnly(keywords, k + 1, text_lower, merchant_lower)

\* One `for keyword in ..._keywords:` loop: the first keyword of the list, at or after
\* index k, that occurs in the lower-cased text or merchant; 0 when none does.
RECURSIVE FirstKeyword(_, _, _, _)
FirstKeyword(keywords, k, text_lower, merchant_lower) ==
    IF k > Len(keywords) THEN 0
    ELSE IF Contains(keywords[k], text_lower) \/ Contains(keywords[k], merchant_lower) THEN k
    ELSE FirstKeyword(keywords, k + 1, text_lower, merchant_lower)

\* The cascade from rule r on: the first rule with a keyword hit returns; the fallback
\* after the last rule returns Other with low confidence.
RECURSIVE Cascade(_, _, _, _)
Cascade(rules, r, text_lower, merchant_lower) ==
    IF r > Len(rules)
    THEN [category |-> Other, confidence |-> "low",
          reason |-> [label |-> "no matching keywords", keyword |-> <<>>, found_in |-> "nowhere"]]
    ELSE LET k == FirstKeyword(rules[r].keywords, 1, text_lower, merchant_lower)
         IN  IF k > 0
             THEN [category |-> rules[r].category, confidence |-> "high",
                   reason |-> [label |-> rules[r].label,
                               keyword |-> rules[r].keywords[k],
                               found_in |-> IF Contains(rules[r].keywords[k], merchant_lower)
                                            THEN "merchant name" ELSE "receipt text"]]
             ELSE Cascade(rules, r + 1, text_lower, merchant_lower)

\* The cascade with the food loop moved in front of the accommodation loop.
categorize_expense_food_first(text, merchant) ==
    Cascade(<<Rules[3], Rules[1], Rules[2]>> \o SubSeq(Rules, 4, Len(Rules)), 1,
            Lower(text), Lower(OrEmpty(merchant)))

\* categorize_expense(text, merchant); merchant may be None.
categorize_expense(text, merchant) ==
    Cascade(Rules, 1, Lower(text), Lower(OrEmpty(merchant)))

-----------------------------------------------------------------------------
(* extract_date                                                            *)

DateSeparators == {"-", "/"}

Month3 ==
    { <<"j","a","n">>, <<"f","e","b">>, <<"m","a","r">>, <<"a","p","r">>,
      <<"m","a","y">>, <<"j","u","n">>, <<"j","u","l">>, <<"a","u","g">>,
      <<"s","e","p">>, <<"o","c","t">>, <<"n","o","v">>, <<"d","e","c">> }

\* A regex quantifier \d{lo,hi} taken greedily at s[i]: the number of digits it
\* consumes, 0 when fewer than lo digits stand there.
GreedyDigits(s, i, lo, hi) ==
    LET run == RunLen(s, i, Digits)
        n   == IF run > hi THEN hi ELSE run
    IN  IF n < lo THEN 0 ELSE n

\* The three groups of digits of (\d{a1,b1})[-/](\d{a2,b2})[-/](\d{a3,b3}) matched at
\* s[i], or None.  The first two groups are followed by a separator, so the regex can
\* only succeed with the greedy length when the next character is that separator.
MatchThreeGroupsAt(s, i, a1, b1, a2, b2, a3, b3) ==
    LET n1 == GreedyDigits(s, i, a1, b1)
        j  == i + n1 + 1
        n2 == GreedyDigits(s, j, a2, b2)
        k  == j + n2 + 1
        n3 == GreedyDigits(s, k, a3, b3)
    IN  IF /\ n1 > 0 /\ i + n1 <= Len(s) /\ s[i + n1] \in DateSeparators
           /\ n2 > 0 /\ j + n2 <= Len(s) /\ s[j + n2] \in DateSeparators
           /\ n3 > 0
        THEN Some(<<SubSeq(s, i, i + n1 - 1), SubSeq(s, j, j + n2 - 1), SubSeq(s, k, k + n3 - 1)>>)
        ELSE None

\* (\d{1,2})\s(?:Jan|...|Dec)[a-z]*[\s,]*(\d{2,4}) under re.IGNORECASE matched at s[i]:
\* its two groups, or None.
MatchDayMonthNameAt(s, i) ==
    LET n1 == GreedyDigits(s, i, 1, 2)
        j  == i + n1 + 1                           \* first letter of the month name
        a  == j + 3 + RunLen(s, j + 3, Letters)    \* after [a-z]*
        b  == a + RunLen(s, a, Whitespace \cup {","})
        n2 == GreedyDigits(s, b, 2, 4)
    IN  IF /\ n1 > 0 /\ i + n1 <= Len(s) /\ s[i + n1] \in Whitespace
           /\ j + 2 <= Len(s) /\ Lower(SubSeq(s, j, j + 2)) \in Month3
           /\ n2 > 0
        THEN Some(<<SubSeq(s, i, i + n1 - 1), SubSeq(s, b, b + n2 - 1)>>)
        ELSE None

\* date_patterns[p] matched at s[i] (lines 186-188).
DatePatternAt(p, s, i) ==
    CASE p = 1 -> MatchThreeGroupsAt(s, i, 1, 2, 1, 2, 2, 4)
      [] p = 2 -> MatchDayMonthNameAt(s, i)
      [] p = 3 -> MatchThreeGroupsAt(s, i, 4, 4, 1, 2, 1, 2)

\* re.search(date_patterns[p], text): the groups of the leftmost match, or None.
DateSearch(p, s) ==
    LET at == {i \in 1..Len(s) : DatePatternAt(p, s, i) # None}
    IN  IF at = {} THEN None ELSE DatePatternAt(p, s, MinOf(at))

IsLeap(y) == (y % 4 = 0 /\ y % 100 # 0) \/ y % 400 = 0

DaysInMonth(y, m) ==
    IF m = 2 THEN (IF IsLeap(y) THEN 29 ELSE 28)
    ELSE IF m \in {4, 6, 9, 11} THEN 30 ELSE 31

\* The date a strptime call builds from its parsed fields: None stands for ValueError.
MakeDate(y, m, d) ==
    IF y >= 1 /\ y <= 9999 /\ m \in 1..12 /\ d >= 1 /\ d <= DaysInMonth(y, m)
    THEN Some([year |-> y, month |-> m, day |-> d])
    ELSE None

\* The directives of strptime on a field of digits: %d and %m take one or two digits,
\* %Y exactly four, %y exactly two (00-68 are 2000-2068, 69-99 are 1969-1999).
FieldDM(ds) == Len(ds) \in {1, 2}
FieldY4(ds) == Len(ds) = 4
FieldY2(ds) == Len(ds) = 2
Year2(ds) == IF ToInt(ds) < 69 THEN 2000 + ToInt(ds) ELSE 1900 + ToInt(ds)

\* datetime.strptime(f"{g1}/{g2}/{g3}", "%d/%m/%Y")
strptime_dmY(g1, g2, g3) ==
    IF FieldDM(g1) /\ FieldDM(g2) /\ FieldY4(g3)
    THEN MakeDate(ToInt(g3), ToInt(g2), ToInt(g1)) ELSE None

\* datetime.strptime(f"{g1}-{g2}-{g3}", "%Y-%m-%d")
strptime_Ymd(g1, g2, g3) ==
    IF FieldY4(g1) /\ FieldDM(g2) /\ FieldDM(g3)
    THEN MakeDate(ToInt(g1), ToInt(g2), ToInt(g3)) ELSE None

\* datetime.strptime(f"{g1}/{g2}/{g3}", "%d/%m/%y")
strptime_dmy(g1, g2, g3) ==
    IF FieldDM(g1) /\ FieldDM(g2) /\ FieldY2(g3)
    THEN MakeDate(Year2(g3), ToInt(g2), ToInt(g1)) ELSE None

\* n written with at least `width` digits, zero padded.
RECURSIVE Pad(_, _)
Pad(n, width) ==
    IF n < 10 /\ width <= 1 THEN <<DigitSeq[n + 1]>>
    ELSE Pad(n \div 10, width - 1) \o <<DigitSeq[(n % 10) + 1]>>

\* date.strftime("%Y-%m-%d"), for years of four digits.
strftime_Ymd(date) == Pad(date.year, 4) \o <<"-">> \o Pad(date.month, 2) \o <<"-">> \o Pad(date.day, 2)

\* The body of the loop of extract_date for the groups of one match (lines 193-205):
\* Some(string) when it returns, None when the pattern is given up (a ValueError, or a
\* match without three groups, for which the body does nothing).
DateFromGroups(g) ==
    IF Len(g) # 3 THEN None
    ELSE LET date == IF Len(g[3]) = 4
                     THEN strptime_dmY(g[1], g[2], g[3])
                     ELSE IF strptime_Ymd(g[1], g[2], g[3]) # None
                          THEN strptime_Ymd(g[1], g[2], g[3])
                          ELSE strptime_dmy(g[1], g[2], g[3])
         IN  IF date = None THEN None ELSE Some(strftime_Ymd(date[1]))

\* The loop over date_patterns from pattern p on.
RECURSIVE DateLoop(_, _)
DateLoop(p, text) ==
    IF p > 3 THEN None
    ELSE LET m == DateSearch(p, text)
             r == IF m = None THEN None ELSE DateFromGroups(m[1])
         IN  IF r # None THEN r ELSE DateLoop(p + 1, text)

\* extract_date(text): Some("YYYY-MM-DD") or None.
extract_date(text) == DateLoop(1, text)

-----------------------------------------------------------------------------
(* extract_line_items                                                      *)

\* The alternatives of the header/total regex of line 535.
SummaryWords ==
    { <<"t","o","t","a","l">>, <<"s","u","b","t","o","t","a","l">>, <<"g","s","t">>,
      <<"t","a","x">>, <<"d","i","s","c","o","u","n","t">>,
      <<"a","m","o","u","n","t"," ","p","a","y","a","b","l","e">>,
      <<"g","r","a","n","d"," ","t","o","t","a","l">>,
      <<"n","e","t"," ","a","m","o","u","n","t">> }

\* re.search(r'(total|subtotal|...)', line, re.IGNORECASE)
IsSummaryLine(line) == \E w \in SummaryWords : Contains(w, Lower(line))

\* The character class [\d,]
AmountChars == Digits \cup {","}

\* ([\d,]+(?:\.\d{2})) matched at s[i]: the index of its last character, 0 for no match.
\* The class is followed by a literal dot, so only the whole run of the class can match.
DecimalEndAt(s, i) ==
    LET n == RunLen(s, i, AmountChars)
        d == i + n
    IN  IF n >= 1 /\ d + 2 <= Len(s) /\ s[d] = "." /\ IsDigit(s[d + 1]) /\ IsDigit(s[d + 2])
        THEN d + 2 ELSE 0

\* re.search(r'([\d,]+(?:\.\d{2}))\s*$', line): [start, group] of the leftmost match.
TrailingAmount(line) ==
    LET at == {i \in 1..Len(line) :
                  /\ DecimalEndAt(line, i) # 0
                  /\ \A j \in (DecimalEndAt(line, i) + 1)..Len(line) : line[j] \in Whitespace}
    IN  IF at = {} THEN None
        ELSE Some([start |-> MinOf(at),
                   group |-> SubSeq(line, MinOf(at), DecimalEndAt(line, MinOf(at)))])

\* re.search(r'RUPEE\s*([\d,]+(?:\.\d{2}))', line): the match starts at the glyph.
GlyphAmount(line) ==
    LET numAt(i) == i + 1 + RunLen(line, i + 1, Whitespace)
        at == {i \in 1..Len(line) : line[i] = "RUPEE" /\ DecimalEndAt(line, numAt(i)) # 0}
    IN  IF at = {} THEN None
        ELSE Some([start |-> MinOf(at),
                   group |-> SubSeq(line, numAt(MinOf(at)), DecimalEndAt(line, numAt(MinOf(at))))])

\* s.replace(',', '')
RECURSIVE WithoutCommas(_)
WithoutCommas(s) ==
    IF s = <<>> THEN <<>>
    ELSE (IF Head(s) = "," THEN <<>> ELSE <<Head(s)>>) \o WithoutCommas(Tail(s))

\* float(s) in hundredths, for s of the form digits* [ "." digit digit ].
DecimalToCents(s) ==
    IF Len(s) >= 3 /\ s[Len(s) - 2] = "."
    THEN ToInt(SubSeq(s, 1, Len(s) - 3)) * 100 + ToInt(SubSeq(s, Len(s) - 1, Len(s)))
    ELSE ToInt(s) * 100

XChars == {"x", "X"}

\* (?:(\d+)\s*[xX]|[xX]\s*(\d+)) matched at s[i]: [stop, q] with stop the index of the
\* last character of the match and q the digits of the group that took part; None for
\* no match.  The alternatives start with different characters, so one at most applies.
QtyMarkerAt(s, i) ==
    LET n1 == RunLen(s, i, Digits)
        x1 == i + n1 + RunLen(s, i + n1, Whitespace)
        d2 == i + 1 + RunLen(s, i + 1, Whitespace)
        n2 == RunLen(s, d2, Digits)
    IN  IF n1 >= 1 /\ x1 <= Len(s) /\ s[x1] \in XChars
        THEN Some([stop |-> x1, q |-> SubSeq(s, i, i + n1 - 1)])
        ELSE IF i <= Len(s) /\ s[i] \in XChars /\ n2 >= 1
        THEN Some([stop |-> d2 + n2 - 1, q |-> SubSeq(s, d2, d2 + n2 - 1)])
        ELSE None

\* The start of the leftmost quantity marker of s at or after index from; 0 for none.
QtySearchFrom(s, from) ==
    LET at == {i \in from..Len(s) : QtyMarkerAt(s, i) # None}
    IN  IF at = {} THEN 0 ELSE MinOf(at)

\* re.sub(marker, '', s): every non-overlapping match removed, left to right.
RECURSIVE RemoveQtyMarkers(_, _)
RemoveQtyMarkers(s, from) ==
    LET i == QtySearchFrom(s, from)
    IN  IF i = 0 THEN SubSeq(s, from, Len(s))
        ELSE SubSeq(s, from, i - 1) \o RemoveQtyMarkers(s, QtyMarkerAt(s, i)[1].stop + 1)

\* The body of the loop of extract_line_items for one line (lines 534-563): the items
\* it appends, none or one.
LineItemsOfLine(line) ==
    IF IsSummaryLine(line) THEN <<>>
    ELSE LET m == IF TrailingAmount(line) # None THEN TrailingAmount(line)
                  ELSE GlyphAmount(line)
         IN  IF m = None THEN <<>>
             ELSE LET amount    == DecimalToCents(WithoutCommas(m[1].group))
                      name_part == Strip(SubSeq(line, 1, m[1].start - 1))
                      qstart    == QtySearchFrom(name_part, 1)
                      qty       == IF qstart = 0 THEN 1
                                   ELSE ToInt(QtyMarkerAt(name_part, qstart)[1].q)
                      name      == IF qstart = 0 THEN name_part
                                   ELSE Strip(RemoveQtyMarkers(name_part, 1))
                  IN  IF name # <<>>
                      THEN <<[name |-> name, amount |-> amount, quantity |-> qty]>>
                      ELSE <<>>

RECURSIVE LineItemsOfLines(_)
LineItemsOfLines(lines) ==
    IF lines = <<>> THEN <<>>
    ELSE LineItemsOfLine(Head(lines)) \o LineItemsOfLines(Tail(lines))

\* extract_line_items(text): the items in line order.
extract_line_items(text) == LineItemsOfLines(Split(text, "\n"))

-----------------------------------------------------------------------------
(* extract_amount                                                          *)

\* The label alternatives of total_patterns[0] and total_patterns[1] (lines 160-161).
SpecificTotalLabels ==
    { <<"g","r","a","n","d"," ","t","o","t","a","l">>,
      <<"g","r","a","n","d","t","o","t","a","l">>,
      <<"n","e","t"," ","a","m","o","u","n","t">>,
      <<"a","m","o","u","n","t"," ","p","a","y","a","b","l","e">>,
      <<"a","m","o","u","n","t"," ","t","o"," ","p","a","y">>,
      <<"t","o","t","a","l"," ","a","m","o","u","n","t">>,
      <<"b","i","l","l"," ","t","o","t","a","l">> }

BareTotalLabels == { <<"t","o","t","a","l">> }

\* The two patterns tried with the bare label first.
total_patterns_bare_first == <<BareTotalLabels, SpecificTotalLabels>>

total_patterns == <<SpecificTotalLabels, BareTotalLabels>>

\* (?:,\d{3})* taken greedily at s[p]: the index after the last group taken.
RECURSIVE AfterCommaGroups(_, _)
AfterCommaGroups(s, p) ==
    IF p + 3 <= Len(s) /\ s[p] = "," /\ IsDigit(s[p + 1]) /\ IsDigit(s[p + 2]) /\ IsDigit(s[p + 3])
    THEN AfterCommaGroups(s, p + 4)
    ELSE p

\* (\d{1,3}(?:,\d{3})*(?:\.\d{2})?) matched greedily at the digit s[q]: the index of the
\* last character of the group.  Nothing follows the group in the patterns that use
\* it, so the greedy choice is the match.
NumberEndAt(s, q) ==
    LET p == AfterCommaGroups(s, q + GreedyDigits(s, q, 1, 3))
    IN  IF p + 2 <= Len(s) /\ s[p] = "." /\ IsDigit(s[p + 1]) /\ IsDigit(s[p + 2])
        THEN p + 2 ELSE p - 1

\* label[:\s]*RUPEE?\s*(number) under re.IGNORECASE matched at s[i]: the index of the
\* first digit of the number, 0 for no match.
LabeledNumberAt(s, i, labels) ==
    IF \E l \in labels : MatchAt(l, Lower(s), i)
    THEN LET l == CHOOSE l \in labels : MatchAt(l, Lower(s), i)
             a == i + Len(l)
             b == a + RunLen(s, a, Whitespace \cup {":"})
             c == IF b <= Len(s) /\ s[b] = "RUPEE" THEN b + 1 ELSE b
             d == c + RunLen(s, c, Whitespace)
         IN  IF d <= Len(s) /\ IsDigit(s[d]) THEN d ELSE 0
    ELSE 0

\* re.search(pattern, text, re.IGNORECASE).group(1) for a total pattern: Some(number
\* text) of the leftmost match, or None.
SearchLabeledNumber(s, labels) ==
    LET at == {i \in 1..Len(s) : LabeledNumberAt(s, i, labels) # 0}
    IN  IF at = {} THEN None
        ELSE LET d == LabeledNumberAt(s, MinOf(at), labels)
             IN  Some(SubSeq(s, d, NumberEndAt(s, d)))

\* re.findall(r'RUPEE?\s*(number)', text) from index `from` on: the optional glyph and
\* blanks capture nothing, so each match captures the number at the next digit.
RECURSIVE FindAllNumbers(_, _)
FindAllNumbers(s, from) ==
    LET at == {q \in from..Len(s) : IsDigit(s[q])}
    IN  IF at = {} THEN <<>>
        ELSE <<SubSeq(s, MinOf(at), NumberEndAt(s, MinOf(at)))>>
                 \o FindAllNumbers(s, NumberEndAt(s, MinOf(at)) + 1)

\* A loop whose fallback returns the smallest number found.
RECURSIVE AmountLoopSmallest(_, _)
AmountLoopSmallest(p, text) ==
    IF p <= Len(total_patterns)
    THEN LET m == SearchLabeledNumber(text, total_patterns[p])
         IN  IF m # None THEN Some(DecimalToCents(WithoutCommas(m[1])))
             ELSE AmountLoopSmallest(p + 1, text)
    ELSE LET amounts == FindAllNumbers(text, 1)
             numeric == {DecimalToCents(WithoutCommas(amounts[i])) : i \in 1..Len(amounts)}
         IN  IF numeric # {} THEN Some(MinOf(numeric)) ELSE None

\* The loop over total_patterns from pattern p on, then the fallback (lines 163-181).
RECURSIVE AmountLoop(_, _)
AmountLoop(p, text) ==
    IF p <= Len(total_patterns)
    THEN LET m == SearchLabeledNumber(text, total_patterns[p])
         IN  IF m # None THEN Some(DecimalToCents(WithoutCommas(m[1])))
             ELSE AmountLoop(p + 1, text)
    ELSE LET amounts == FindAllNumbers(text, 1)
             numeric == {DecimalToCents(WithoutCommas(amounts[i])) : i \in 1..Len(amounts)}
         IN  IF numeric # {} THEN Some(MaxOf(numeric)) ELSE None

\* extract_amount(text): Some(amount in hundredths) or None.
extract_amount(text) == AmountLoop(1, text)

-----------------------------------------------------------------------------
(* extract_merchant and generate_description                               *)

\* The words of line 212.
AdminWords ==
    { <<"b","i","l","l">>, <<"i","n","v","o","i","c","e">>, <<"r","e","c","e","i","p","t">>,
      <<"d","a","t","e">>, <<"t","i","m","e">>, <<"g","s","t">>, <<"t","a","x">> }

\* A loop over the first 5 lines that are not blank.
RECURSIVE MerchantLoopNonBlank(_, _)
MerchantLoopNonBlank(lines, i) ==
    LET kept == SelectSeq(lines, LAMBDA l : Strip(l) # <<>>)
    IN  IF i > Len(kept) \/ i > 5 THEN None
        ELSE IF /\ ~\E w \in AdminWords : Contains(w, Lower(kept[i]))
                /\ \E j \in 1..Len(kept[i]) : kept[i][j] \in Letters
             THEN Some(Strip(kept[i]))
             ELSE MerchantLoopNonBlank(kept, i + 1)

\* The loop over lines[:5] from line i on.
RECURSIVE MerchantLoop(_, _)
MerchantLoop(lines, i) ==
    IF i > Len(lines) \/ i > 5 THEN None
    ELSE IF /\ Strip(lines[i]) # <<>>
            /\ ~\E w \in AdminWords : Contains(w, Lower(lines[i]))
            /\ \E j \in 1..Len(lines[i]) : lines[i][j] \in Letters
         THEN Some(Strip(lines[i]))
         ELSE MerchantLoop(lines, i + 1)

\* extract_merchant(text): Some(line) or None.
extract_merchant(text) == MerchantLoop(Split(text, "\n"), 1)

ItemNames(items) == [i \in 1..Len(items) |-> items[i].name]

\* A description that joins the names of at most 2 items.
generate_description_join_two(merchant, items, category) ==
    IF merchant # <<>> /\ items # <<>>
    THEN IF Len(items) = 1
         THEN items[1].name \o <<" ","f","r","o","m"," ">> \o merchant
         ELSE IF Len(items) <= 2
         THEN Join(ItemNames(items), <<","," ">>) \o <<" ","f","r","o","m"," ">> \o merchant
         ELSE <<"M","u","l","t","i","p","l","e"," ","i","t","e","m","s"," ","f","r","o","m"," ">>
                  \o merchant
    ELSE IF merchant # <<>>
    THEN <<"P","u","r","c","h","a","s","e"," ","f","r","o","m"," ">> \o merchant
    ELSE IF items # <<>>
    THEN IF Len(items) = 1
         THEN items[1].name
         ELSE <<"M","u","l","t","i","p","l","e"," ","i","t","e","m","s"," ","-"," ">>
                  \o Lower(category)
    ELSE <<"E","x","p","e","n","s","e"," ","-"," ">> \o Lower(category)

\* generate_description(merchant, items, category); merchant is a string, "" for none.
generate_description(merchant, items, category) ==
    IF merchant # <<>> /\ items # <<>>
    THEN IF Len(items) = 1
         THEN items[1].name \o <<" ","f","r","o","m"," ">> \o merchant
         ELSE IF Len(items) <= 3
         THEN Join(ItemNames(items), <<","," ">>) \o <<" ","f","r","o","m"," ">> \o merchant
         ELSE <<"M","u","l","t","i","p","l","e"," ","i","t","e","m","s"," ","f","r","o","m"," ">>
                  \o merchant
    ELSE IF merchant # <<>>
    THEN <<"P","u","r","c","h","a","s","e"," ","f","r","o","m"," ">> \o merchant
    ELSE IF items # <<>>
    THEN IF Len(items) = 1
         THEN items[1].name
         ELSE <<"M","u","l","t","i","p","l","e"," ","i","t","e","m","s"," ","-"," ">>
                  \o Lower(category)
    ELSE <<"E","x","p","e","n","s","e"," ","-"," ">> \o Lower(category)

-----------------------------------------------------------------------------
(* validate_image and preprocess_image                                     *)
(*                                                                         *)
(* An image buffer is described by what the libraries find in it:          *)
(*   size           len(image_bytes)                                       *)
(*   pil            "opens" when PIL's Image.open identifies a container,  *)
(*                  "raises" when it does not                              *)
(*   format         img.format as PIL names it ("NONE": no format)         *)
(*   cv             "image" when cv2.imdecode yields a pixel grid, "none"  *)
(*                  when it yields None, "raises" when a later cv2 call of *)
(*                  the normaliser raises                                  *)
(*   height, width  the shape of the decoded grid                          *)
(* An error message is the sequence of the pieces it is formatted from.    *)

MaxImageBytes == 10485760
MinDimension == 100
UpscaleBelow == 1000
UpscaleTarget == 1200
DownscaleAbove == 4000
ThresholdOffset == 15

\* img.format.lower() for the formats PIL reports.
FormatLower ==
    [JPEG |-> "jpeg", PNG |-> "png", BMP |-> "bmp", TIFF |-> "tiff", GIF |-> "gif",
     WEBP |-> "webp"]

SupportedFormats == {"jpeg", "jpg", "png", "bmp", "tiff"}

PilErrorText == "cannot identify image file"
CvErrorText == "OpenCV error"

\* A limit of 10 MiB that also turns away a buffer of exactly 10 MiB.
TooLargeFrom10MiB(size) == size >= MaxImageBytes

\* len(image_bytes) > 10 * 1024 * 1024
TooLarge(size) == size > MaxImageBytes

\* A validate_image that opens the buffer with PIL before it looks at its length.
validate_image_decode_first(b) ==
    IF b.size = 0 THEN Some(<<"Empty image data">>)
    ELSE IF b.pil = "raises" THEN Some(<<"Invalid image file: ", PilErrorText>>)
    ELSE IF TooLarge(b.size) THEN Some(<<"Image file too large (max 10MB)">>)
    ELSE LET format == IF b.format = "NONE" THEN "None" ELSE FormatLower[b.format]
         IN  IF format \notin SupportedFormats
             THEN Some(<<"Invalid image file: ", "Unsupported image format: ", format>>)
             ELSE None

\* validate_image(image_bytes): None when it returns, Some(message) when it raises
\* ValueError.  The ValueError for an unsupported format is raised inside the try and
\* rewrapped by its except clause.
validate_image(b) ==
    IF b.size = 0 THEN Some(<<"Empty image data">>)
    ELSE IF TooLarge(b.size) THEN Some(<<"Image file too large (max 10MB)">>)
    ELSE IF b.pil = "raises" THEN Some(<<"Invalid image file: ", PilErrorText>>)
    ELSE LET format == IF b.format = "NONE" THEN "None" ELSE FormatLower[b.format]
         IN  IF format \notin SupportedFormats
             THEN Some(<<"Invalid image file: ", "Unsupported image format: ", format>>)
             ELSE None

\* The (side, target, longer side) for which the double product side * (target /
\* longer) falls just below the exact integer quotient, so that int() gives one less:
\* 4210 * (4000 / 4210) is 3999.9999999999995 in IEEE-754 double arithmetic, and
\* 281 * (1200 / 281) is 1199.9999999999998.
DoubleShortfall == { <<4210, 4000, 4210>>, <<281, 1200, 281>> }

\* int(side * scale) with scale = target / max_dimension in double arithmetic.
ScaledSide(side, target, max_dimension) ==
    ((side * target) \div max_dimension)
        - (IF <<side, target, max_dimension>> \in DoubleShortfall THEN 1 ELSE 0)

\* The shape (height, width) after the resize of lines 88-94.
ResizedShape(h, w) ==
    LET max_dimension == IF h > w THEN h ELSE w
    IN  IF max_dimension < UpscaleBelow
        THEN <<ScaledSide(h, UpscaleTarget, max_dimension), ScaledSide(w, UpscaleTarget, max_dimension)>>
        ELSE IF max_dimension > DownscaleAbove
        THEN <<ScaledSide(h, DownscaleAbove, max_dimension), ScaledSide(w, DownscaleAbove, max_dimension)>>
        ELSE <<h, w>>

\* max(3, int(min(h,w) * 0.02) | 1): int(m * 0.02) is m \div 50 for every m up to
\* 20000, and n | 1 is n when n is odd and n + 1 when it is even.
BlockSize(h, w) ==
    LET m == IF h < w THEN h ELSE w
        n == m \div 50
        odd == IF n % 2 = 1 THEN n ELSE n + 1
    IN  IF odd > 3 THEN odd ELSE 3

\* A normaliser that also turns away a side of exactly 100 pixels.
normalize_above_minimum(b) ==
    IF b.cv = "none"
    THEN [ok |-> FALSE, error |-> <<"Image preprocessing failed: ", "Unable to decode image bytes">>]
    ELSE IF b.height <= MinDimension \/ b.width <= MinDimension
    THEN [ok |-> FALSE,
          error |-> <<"Image preprocessing failed: ", "Image too small (minimum 100x100 pixels)">>]
    ELSE IF b.cv = "raises"
    THEN [ok |-> FALSE, error |-> <<"Image preprocessing failed: ", CvErrorText>>]
    ELSE [ok |-> TRUE,
          image |-> [shape |-> ResizedShape(b.height, b.width),
                     block_size |-> BlockSize(b.height, b.width),
                     offset |-> ThresholdOffset]]

\* The try block of preprocess_image (lines 75-122), after validate_image returned:
\* the normalised image, or the message of the ValueError every exception is
\* rewrapped into.
normalize(b) ==
    IF b.cv = "none"
    THEN [ok |-> FALSE, error |-> <<"Image preprocessing failed: ", "Unable to decode image bytes">>]
    ELSE IF b.height < MinDimension \/ b.width < MinDimension
    THEN [ok |-> FALSE,
          error |-> <<"Image preprocessing failed: ", "Image too small (minimum 100x100 pixels)">>]
    ELSE IF b.cv = "raises"
    THEN [ok |-> FALSE, error |-> <<"Image preprocessing failed: ", CvErrorText>>]
    ELSE [ok |-> TRUE,
          image |-> [shape |-> ResizedShape(b.height, b.width),
                     block_size |-> BlockSize(b.height, b.width),
                     offset |-> ThresholdOffset]]

-----------------------------------------------------------------------------
(* extract_text                                                            *)
(*                                                                         *)
(* The OCR engine is described, per page-segmentation mode, by what its    *)
(* two calls do on the normalised image:                                   *)
(*   raises   "none", "image_to_data" or "image_to_string"                 *)
(*   conf     the token confidences of image_to_data, -1 for "no text"     *)
(*   text     the string image_to_string returns                           *)
(* and by sentinel_is_text: whether the installed pytesseract hands the    *)
(* -1 sentinel over as the string '-1' (it then differs from no number) or *)
(* as the number -1, which `x != '-1'` does not filter out.                *)

psm_modes == <<6, 3, 4>>

EngineErrorText == "tesseract failed"

GenericProcessingMessage ==
    <<"Failed to process receipt. Please ensure the image is clear and contains readable text.">>

\* [float(x) for x in data['conf'] if x != '-1']
KeptConfidences(conf, sentinel_is_text) ==
    SelectSeq(conf, LAMBDA x : ~(sentinel_is_text /\ x = -1))

RECURSIVE SumSeq(_)
SumSeq(s) == IF s = <<>> THEN 0 ELSE Head(s) + SumSeq(Tail(s))

\* a > b for the means a and b, each a sum over a positive count.
MeanGreater(a, b) == a.sum * b.count > b.sum * a.count

\* '\n'.join([line.strip() for line in text.splitlines() if line.strip()])
RECURSIVE StrippedNonBlank(_)
StrippedNonBlank(lines) ==
    IF lines = <<>> THEN <<>>
    ELSE (IF Strip(Head(lines)) # <<>> THEN <<Strip(Head(lines))>> ELSE <<>>)
             \o StrippedNonBlank(Tail(lines))

CleanText(raw) == Join(StrippedNonBlank(SplitLines(raw)), <<"\n">>)

\* One iteration of the loop over psm_modes (lines 132-147) on the pass `p` of the
\* engine, from the best text and confidence so far: the new pair, or the exception.
OcrPass(p, sentinel_is_text, best) ==
    IF p.raises = "image_to_data" THEN [ok |-> FALSE, error |-> EngineErrorText]
    ELSE LET confidences == KeptConfidences(p.conf, sentinel_is_text)
             avg == [sum |-> SumSeq(confidences), count |-> Len(confidences)]
         IN  IF confidences # <<>> /\ MeanGreater(avg, best.max_confidence)
             THEN IF p.raises = "image_to_string" THEN [ok |-> FALSE, error |-> EngineErrorText]
                  ELSE IF CleanText(p.text) # <<>>
                  THEN [ok |-> TRUE, best_text |-> CleanText(p.text), max_confidence |-> avg]
                  ELSE [ok |-> TRUE, best_text |-> best.best_text,
                        max_confidence |-> best.max_confidence]
             ELSE [ok |-> TRUE, best_text |-> best.best_text,
                   max_confidence |-> best.max_confidence]

-----------------------------------------------------------------------------
(* process_receipt                                                         *)

RawTextLimit == 500

\* A raw_text that carries the whole text.
RawTextWhole(text) == text

\* text[:500] + "..." if len(text) > 500 else text
RawTextPreview(text) ==
    IF Len(text) > RawTextLimit THEN SubSeq(text, 1, RawTextLimit) \o <<".", ".", ".">> ELSE text

\* The record of `except ValueError as e` (lines 647-654).
ValidationFailure(message) ==
    [success |-> FALSE, error |-> message, error_type |-> "validation"]

\* A handler for unexpected errors that reports str(e).
ProcessingFailureWithCause(message) ==
    [success |-> FALSE, error |-> message, error_type |-> "processing"]

\* The record of `except Exception as e` (lines 655-662): the message is fixed.
ProcessingFailure(message) ==
    [success |-> FALSE, error |-> GenericProcessingMessage, error_type |-> "processing"]

\* The record returned when `not amount` (lines 621-628).
MissingAmountFailure(text) ==
    [success |-> FALSE,
     error |-> <<"Could not find a valid amount in the receipt. Please ensure the receipt image is clear and contains readable text.">>,
     error_type |-> "validation",
     raw_text |-> RawTextPreview(text)]

\* `not amount`: None and 0.0 are both falsy.
NotAmount(amount) == amount = None \/ amount = Some(0)

\* A date field that keeps the extracted value even when there is none.
DateAsExtracted(date, now) == date

\* date or datetime.now().strftime("%Y-%m-%d")
DateOrToday(date, now) == IF date # None THEN date ELSE Some(strftime_Ymd(now))

\* A confirmation flag raised for the confident categories.
NeedsConfirmationWhenHigh(category_result) == category_result.confidence = "high"

\* category_result["confidence"] == "low"
NeedsConfirmation(category_result) == category_result.confidence = "low"

\* The result dictionary of lines 630-642.  amount and date are kept as options so
\* that a missing value can be told from a present one.
SuccessRecord(l, now) ==
    [success |-> TRUE,
     amount |-> l.amount,
     date |-> DateOrToday(l.date, now),
     merchant |-> l.merchant,
     category |-> l.category_result.category,
     category_confidence |-> l.category_result.confidence,
     category_reason |-> l.category_result.reason,
     description |-> l.description,
     items |-> l.items,
     raw_text |-> l.text,
     needs_confirmation |-> NeedsConfirmation(l.category_result)]

-----------------------------------------------------------------------------
(* Calls of categorize_expense on bounded inputs                           *)

\* Texts are at most MaxWords words of CatWords joined by single spaces.
MaxWords == 2

CatWords ==
    { <<"r","e","s","t","a","u","r","a","n","t">>,
      <<"R","E","S","T","A","U","R","A","N","T","S">>,
      <<"h","o","t","e","l">>,
      <<"H","o","t","e","l">>,
      <<"x","y","z">>,
      <<"D","i","n","n","e","r">>,
      <<"u","b","e","r">>,
      <<"P","i","z","z","e","r","i","a">>,
      <<"g","y","m">> }

RECURSIVE WordTexts(_, _)
WordTexts(words, n) ==
    IF n = 0 THEN {<<>>}
    ELSE LET shorter == WordTexts(words, n - 1)
         IN  shorter \cup words \cup {t \o <<" ">> \o w : t \in shorter \ {<<>>}, w \in words}

CatTexts == WordTexts(CatWords, MaxWords)

CatMerchants ==
    { None,
      Some(<<>>),
      Some(<<"Z","q">>),
      Some(<<"T","a","j"," ","H","o","t","e","l">>),
      Some(<<"C","a","f","e">>) }

InitCategorize ==
    /\ \E t \in CatTexts, m \in CatMerchants :
           call = [fn |-> "categorize_expense", text |-> t, merchant |-> m]
    /\ pc = "called"
    /\ loc = <<>>
    /\ ret = None

CategorizeReturn ==
    /\ pc = "called"
    /\ call.fn = "categorize_expense"
    /\ ret' = Some(categorize_expense(call.text, call.merchant))
    /\ pc' = "returned"
    /\ UNCHANGED <<call, loc>>

SpecCategorize == InitCategorize /\ [][CategorizeReturn]_vars

-----------------------------------------------------------------------------
(* Calls of process_receipt on bounded inputs                              *)

\* The longest receipt text exceeds the raw_text limit by this many characters.
MaxOverLimit == 2

GoodBuffer ==
    [size |-> 52000, pil |-> "opens", format |-> "PNG", cv |-> "image",
     height |-> 600, width |-> 400]

\* Buffers that validate_image or preprocess_image turns away, and buffers it accepts.
Buffers ==
    { [GoodBuffer EXCEPT !.size = 0, !.pil = "raises", !.cv = "none"],
      [GoodBuffer EXCEPT !.size = MaxImageBytes + 1],
      [GoodBuffer EXCEPT !.size = MaxImageBytes],
      [GoodBuffer EXCEPT !.size = MaxImageBytes + 1, !.pil = "raises", !.cv = "none"],
      [GoodBuffer EXCEPT !.size = MaxImageBytes, !.pil = "raises", !.cv = "none"],
      [GoodBuffer EXCEPT !.size = 1],
      [GoodBuffer EXCEPT !.size = 18, !.pil = "raises", !.cv = "none"],
      [GoodBuffer EXCEPT !.format = "GIF"],
      [GoodBuffer EXCEPT !.format = "WEBP"],
      [GoodBuffer EXCEPT !.format = "NONE"],
      [GoodBuffer EXCEPT !.cv = "none"],
      [GoodBuffer EXCEPT !.cv = "raises"],
      [GoodBuffer EXCEPT !.cv = "raises", !.height = 5, !.width = 5] }
    \cup { [GoodBuffer EXCEPT !.format = f, !.height = d[1], !.width = d[2]] :
               f \in {"JPEG", "PNG", "BMP", "TIFF"},
               d \in { <<5, 5>>, <<10, 10>>, <<99, 100>>, <<100, 99>>, <<100, 100>>,
                       <<600, 400>>, <<1000, 4000>>, <<4210, 3000>>, <<281, 200>>,
                       <<999, 500>>, <<1000, 1000>>, <<4000, 2000>>, <<4001, 3000>>,
                       <<3000, 4210>>, <<180, 240>> } }

\* What one pass of the engine does with a receipt whose text is t.
ReceiptPassKinds ==
    {"crash", "blank", "weak", "good", "hollow", "string_crash", "zero", "faint"}

EnginePass(kind, t) ==
    CASE kind = "crash"  -> [raises |-> "image_to_data", conf |-> <<>>, text |-> <<>>]
      [] kind = "blank"  -> [raises |-> "none", conf |-> <<-1, -1>>, text |-> <<" ", "\n">>]
      [] kind = "weak"   -> [raises |-> "none", conf |-> <<-1, 40, 61>>,
                             text |-> <<"~", "\n">> \o t]
      [] kind = "good"   -> [raises |-> "none", conf |-> <<-1, 90, 96, -1>>,
                             text |-> <<" ", "\n", " ">> \o t \o <<" ", "\n", "\n">>]
      [] kind = "hollow" -> [raises |-> "none", conf |-> <<97>>, text |-> <<"\n", " ", "\t">>]
      [] kind = "string_crash" -> [raises |-> "image_to_string", conf |-> <<99>>, text |-> <<>>]
      [] kind = "zero"   -> [raises |-> "none", conf |-> <<-1, 0, 0>>, text |-> t]
      [] kind = "faint"  -> [raises |-> "none", conf |-> <<-1, -1, -1, 2>>, text |-> t]

Engine(kinds, t, sentinel_is_text) ==
    [passes |-> [i \in 1..3 |-> EnginePass(kinds[i], t)], sentinel_is_text |-> sentinel_is_text]

T_Mario ==
    <<"M","A","R","I","O","'","S"," ","P","I","Z","Z","E","R","I","A","\n",
      "T","O","T","A","L",":"," ","RUPEE","6","4","9",".","0","0">>

LettersOnly(n) == [i \in 1..n |-> "q"]

\* Receipt texts: with and without an amount, a date, a keyword, line items; without
\* any digit and as long as the raw_text limit, one shorter and up to MaxOverLimit longer.
ReceiptTexts ==
    { T_Mario,
      <<"T","h","a","n","k"," ","y","o","u","\n","V","i","s","i","t"," ","a","g","a","i","n">>,
      <<"C","a","f","e"," ","Z","q","\n","T","O","T","A","L",":"," ","0",".","0","0">>,
      <<"Z","q"," ","T","r","a","d","e","r","s","\n","1","5","-","0","1","-","2","0","2","4","\n",
        "T","O","T","A","L"," ","1","0",".","0","0">>,
      <<"T","a","j","\n","2"," ","x"," ","I","d","l","i"," ","4","0",".","0","0","\n",
        "G","R","A","N","D"," ","T","O","T","A","L"," ","8","0",".","0","0">>,
      <<"Z","q","\n","A","m","o","u","n","t"," ","5",".","0","0">> }
    \cup { LettersOnly(n) : n \in (RawTextLimit - 1)..(RawTextLimit + MaxOverLimit) }

ProcessingDates ==
    { [year |-> 2024, month |-> 2, day |-> 29], [year |-> 2026, month |-> 11, day |-> 1] }

DefaultKinds == <<"good", "weak", "blank">>
DefaultDate == [year |-> 2026, month |-> 11, day |-> 1]

\* The inputs of the calls: every buffer with one engine, every engine with one
\* buffer, every receipt text and processing date with one buffer and engine.
ReceiptCalls ==
    { [fn |-> "process_receipt", image_bytes |-> b,
       engine |-> Engine(DefaultKinds, T_Mario, TRUE), now |-> DefaultDate] : b \in Buffers }
    \cup { [fn |-> "process_receipt", image_bytes |-> GoodBuffer,
            engine |-> Engine(<<k1, k2, k3>>, T_Mario, s), now |-> DefaultDate] :
               k1 \in ReceiptPassKinds, k2 \in ReceiptPassKinds, k3 \in ReceiptPassKinds,
               s \in BOOLEAN }
    \cup { [fn |-> "process_receipt", image_bytes |-> GoodBuffer,
            engine |-> Engine(DefaultKinds, t, TRUE), now |-> d] :
               t \in ReceiptTexts, d \in ProcessingDates }

NoLocals ==
    [image |-> None, psm |-> 1, best_text |-> <<>>, max_confidence |-> [sum |-> 0, count |-> 1],
     text |-> None, amount |-> None, date |-> None, merchant |-> None, items |-> <<>>,
     category_result |-> None, description |-> None, stages |-> <<>>, exception |-> None]

Init ==
    /\ call \in ReceiptCalls
    /\ pc = "Validating"
    /\ loc = NoLocals
    /\ ret = None

InCall(stage) == call.fn = "process_receipt" /\ pc = stage

Return(record) ==
    /\ ret' = Some(record)
    /\ pc' = "returned"

\* raise type(message): control leaves the try block of process_receipt for its
\* except clauses.
Raise(type, message) ==
    /\ loc' = [loc EXCEPT !.exception = Some([type |-> type, message |-> message])]
    /\ pc' = "Raised"
    /\ UNCHANGED ret

\* preprocess_image, line 73: validate_image; its ValueError reaches the handler of
\* process_receipt unwrapped.
Validate ==
    /\ InCall("Validating")
    /\ LET e == validate_image(call.image_bytes)
       IN  IF e # None
           THEN Raise("ValueError", e[1])
           ELSE /\ pc' = "Normalizing"
                /\ loc' = [loc EXCEPT !.stages = Append(@, "Validating")]
                /\ UNCHANGED ret
    /\ UNCHANGED call

\* A preprocess_image whose failure is passed over: the pipeline goes on to the OCR
\* stage without a normalised image.
NormalizeBestEffort ==
    /\ InCall("Normalizing")
    /\ LET r == normalize(call.image_bytes)
       IN  /\ pc' = "Recognizing"
           /\ loc' = IF r.ok
                     THEN [loc EXCEPT !.image = Some(r.image), !.stages = Append(@, "Normalizing")]
                     ELSE loc
           /\ UNCHANGED ret
    /\ UNCHANGED call

\* preprocess_image, lines 75-122.
Normalize ==
    /\ InCall("Normalizing")
    /\ LET r == normalize(call.image_bytes)
       IN  IF ~r.ok
           THEN Raise("ValueError", r.error)
           ELSE /\ pc' = "Recognizing"
                /\ loc' = [loc EXCEPT !.image = Some(r.image),
                                      !.stages = Append(@, "Normalizing")]
                /\ UNCHANGED ret
    /\ UNCHANGED call

\* extract_text: one iteration of its loop over psm_modes.
Recognize ==
    /\ InCall("Recognizing")
    /\ loc.psm <= Len(psm_modes)
    /\ LET r == OcrPass(call.engine.passes[loc.psm], call.engine.sentinel_is_text,
                        [best_text |-> loc.best_text, max_confidence |-> loc.max_confidence])
       IN  IF ~r.ok
           THEN Raise("Exception", <<"Text extraction failed: ", r.error>>)
           ELSE /\ loc' = [loc EXCEPT !.psm = @ + 1, !.best_text = r.best_text,
                                      !.max_confidence = r.max_confidence]
                /\ UNCHANGED <<pc, ret>>
    /\ UNCHANGED call

\* extract_text after its loop (lines 149-152), and the check of line 602, which no
\* text can fail once extract_text has returned.
Select ==
    /\ InCall("Recognizing")
    /\ loc.psm > Len(psm_modes)
    /\ IF loc.best_text = <<>>
       THEN Raise("Exception", <<"Text extraction failed: ", "No readable text found in image">>)
       ELSE /\ pc' = "Extracting"
            /\ loc' = [loc EXCEPT !.text = Some(loc.best_text),
                                  !.stages = Append(@, "Recognizing")]
            /\ UNCHANGED ret
    /\ UNCHANGED call

\* Lines 605-609.
Extract ==
    /\ InCall("Extracting")
    /\ loc' = [loc EXCEPT !.amount = extract_amount(loc.text[1]),
                          !.date = extract_date(loc.text[1]),
                          !.merchant = extract_merchant(loc.text[1]),
                          !.items = extract_line_items(loc.text[1]),
                          !.stages = Append(@, "Extracting")]
    /\ pc' = "Categorizing"
    /\ UNCHANGED <<call, ret>>

\* Lines 611-616.
Categorize ==
    /\ InCall("Categorizing")
    /\ LET category_result == categorize_expense(loc.text[1], Some(OrEmpty(loc.merchant)))
       IN  loc' = [loc EXCEPT !.category_result = Some(category_result),
                              !.description =
                                  Some(generate_description(OrEmpty(loc.merchant), loc.items,
                                                            category_result.category)),
                              !.stages = Append(@, "Categorizing")]
    /\ pc' = "Assembling"
    /\ UNCHANGED <<call, ret>>

\* Lines 620-645: the missing-amount failure or the result dictionary.
Assemble ==
    /\ InCall("Assembling")
    /\ IF NotAmount(loc.amount)
       THEN Return(MissingAmountFailure(loc.text[1]))
       ELSE Return(SuccessRecord([loc EXCEPT !.category_result = @[1], !.description = @[1],
                                             !.text = @[1]], call.now))
    /\ UNCHANGED <<call, loc>>

\* except ValueError as e (lines 647-654).
HandleValueError ==
    /\ InCall("Raised")
    /\ loc.exception[1].type = "ValueError"
    /\ Return(ValidationFailure(loc.exception[1].message))
    /\ UNCHANGED <<call, loc>>

\* except Exception as e (lines 655-662), for what the clause before it left.
HandleException ==
    /\ InCall("Raised")
    /\ loc.exception[1].type = "Exception"
    /\ Return(ProcessingFailure(loc.exception[1].message))
    /\ UNCHANGED <<call, loc>>

\* upload_receipt (src/backend/server.py) from the return of process_receipt on: the
\* uploaded file is stored under a fresh name, which the response gives as a URL.
ReceiptUrl == "/uploads/<uuid>_<filename>"

\* {k: v for k, v in result.items() if k != "success"}, with receipt_url added
\* (lines 466-467).
extracted_data(result) ==
    [k \in (DOMAIN result \ {"success"}) \cup {"receipt_url"} |->
        IF k = "receipt_url" THEN ReceiptUrl ELSE result[k]]

\* The response of upload_receipt to the result of process_receipt (lines 442-524);
\* inserted: whether db.expenses.insert_one went through.
upload_response(result, inserted) ==
    IF ~result.success
    THEN [success |-> FALSE, error |-> result.error, error_type |-> result.error_type]
    ELSE LET expense_created ==
                 /\ ~NotAmount(result.amount)
                 /\ result.description # <<>>
                 /\ inserted
         IN  IF expense_created
             THEN [success |-> TRUE,
                   extracted_data |-> extracted_data(result),
                   expense_created |-> TRUE,
                   expense_id |-> "<uuid>",
                   message |->
                       IF result.category_confidence = "high"
                       THEN "Receipt processed and expense created automatically!"
                       ELSE "Receipt processed and expense created. Please review the categorization."]
             ELSE [success |-> TRUE,
                   extracted_data |-> extracted_data(result),
                   expense_created |-> FALSE,
                   message |-> "Receipt processed successfully. Please review the extracted data."]

\* upload_receipt answers with what process_receipt returned to it.
Respond ==
    /\ InCall("returned")
    /\ \E inserted \in BOOLEAN : ret' = Some(upload_response(ret[1], inserted))
    /\ pc' = "responded"
    /\ UNCHANGED <<call, loc>>

Next ==
    \/ Validate \/ Normalize \/ Recognize \/ Select \/ Extract \/ Categorize \/ Assemble
    \/ HandleValueError \/ HandleException
    \/ Respond

Spec == Init /\ [][Next]_vars

-----------------------------------------------------------------------------
(* Calls of extract_date on bounded inputs                                 *)

\* The digit fields a date text is written with: days, months and years, valid and
\* not (day 32, month 13, 29 February of a common year).
DateFields ==
    { <<"1","5">>, <<"0","1">>, <<"2","0","2","4">>, <<"5">>, <<"3","2">>, <<"1","3">>,
      <<"2","4">>, <<"2","9">>, <<"0","2">>, <<"2","0","2","3">> }

DateTexts ==
    {a \o <<sep>> \o b \o <<sep>> \o c : a \in DateFields, b \in DateFields,
                                          c \in DateFields, sep \in DateSeparators}
    \cup { <<"1","5"," ","J","a","n"," ","2","0","2","4">>,
           <<"1","5"," ","J","A","N","U","A","R","Y"," ","2","0","2","4">>,
           <<"D","a","t","e",":"," ","1","5","-","0","1","-","2","0","2","4">>,
           <<"n","o"," ","d","a","t","e">>,
           <<"2","0","3","2","-","0","1","-","1","5">>,
           <<"3","2","-","0","1","-","2","0","2","4"," ","2","0","2","4","-","0","1","-","1","5">>,
           <<"3","2","-","0","1","-","2","0","2","4"," ","1","5"," ","J","a","n"," ","2","0","2","4">>,
           <<"3","1"," ","F","e","b"," ","2","0","2","4">>,
           <<>> }

InitDate ==
    /\ \E t \in DateTexts : call = [fn |-> "extract_date", text |-> t]
    /\ pc = "called"
    /\ loc = <<>>
    /\ ret = None

\* A call of extract_date returns; its result is kept as Some(result), the result
\* itself being None or Some(string).
ExtractDateReturn ==
    /\ pc = "called"
    /\ call.fn = "extract_date"
    /\ ret' = Some(extract_date(call.text))
    /\ pc' = "returned"
    /\ UNCHANGED <<call, loc>>

SpecDate == InitDate /\ [][ExtractDateReturn]_vars

-----------------------------------------------------------------------------
(* Calls of extract_line_items on bounded inputs                           *)

\* Quantities, item names and amounts as written on a line, with their values.
ItemQuantities ==
    { [text |-> <<"2">>, n |-> 2], [text |-> <<"1","2">>, n |-> 12],
      [text |-> <<"1">>, n |-> 1], [text |-> <<"0">>, n |-> 0] }

ItemNameTexts ==
    { <<"I","d","l","i">>,
      <<"M","a","s","a","l","a"," ","D","o","s","a">>,
      <<"B","o","x">>,
      <<"X","b","o","x","3","6","0">>,
      <<"C","o","k","e"," ","2">>,
      <<"7","U","p">> }

ItemAmounts ==
    { [text |-> <<"4","0",".","0","0">>, cents |-> 4000],
      [text |-> <<"1",",","0","4","0",".","0","0">>, cents |-> 104000],
      [text |-> <<"RUPEE","1","2","0",".","0","0">>, cents |-> 12000] }

\* The three line forms: "<q> x <name> <amount>", "<name> x<q> <amount>" and
\* "<name> <amount>".
ItemLine(form, q, name, amount) ==
    CASE form = "qty_first" -> q \o <<" ","x"," ">> \o name \o <<" ">> \o amount
      [] form = "qty_last"  -> name \o <<" ","x">> \o q \o <<" ">> \o amount
      [] form = "plain"     -> name \o <<" ">> \o amount

InitItems ==
    /\ \E form \in {"qty_first", "qty_last", "plain"}, q \in ItemQuantities,
          name \in ItemNameTexts, amount \in ItemAmounts :
           call = [fn |-> "extract_line_items",
                   text |-> ItemLine(form, q.text, name, amount.text),
                   form |-> form,
                   q |-> IF form = "plain" THEN 1 ELSE q.n,
                   name |-> name,
                   cents |-> amount.cents]
    /\ pc = "called"
    /\ loc = <<>>
    /\ ret = None

ExtractLineItemsReturn ==
    /\ pc = "called"
    /\ call.fn = "extract_line_items"
    /\ ret' = Some(extract_line_items(call.text))
    /\ pc' = "returned"
    /\ UNCHANGED <<call, loc>>

SpecItems == InitItems /\ [][ExtractLineItemsReturn]_vars

-----------------------------------------------------------------------------
(* Calls of extract_amount on bounded inputs                               *)

\* Labels as written on a line: the specific total labels, the bare one, a subtotal,
\* and labels that name no total.
AmountLabels ==
    { [text |-> <<"G","r","a","n","d"," ","T","o","t","a","l">>, kind |-> "specific"],
      [text |-> <<"N","E","T"," ","A","M","O","U","N","T">>, kind |-> "specific"],
      [text |-> <<"a","m","o","u","n","t"," ","p","a","y","a","b","l","e">>, kind |-> "specific"],
      [text |-> <<"B","i","l","l"," ","T","o","t","a","l">>, kind |-> "specific"],
      [text |-> <<"T","o","t","a","l"," ","A","m","o","u","n","t">>, kind |-> "specific"],
      [text |-> <<"A","m","o","u","n","t"," ","t","o"," ","p","a","y">>, kind |-> "specific"],
      [text |-> <<"T","O","T","A","L">>, kind |-> "bare"],
      [text |-> <<"S","U","B","T","O","T","A","L">>, kind |-> "sub"],
      [text |-> <<"I","t","e","m">>, kind |-> "none"],
      [text |-> <<"R","e","f","u","n","d"," ","-">>, kind |-> "none"] }

AmountSeparators == { <<":", " ">>, <<" ", "RUPEE">> }

\* Numbers as written, with their value in hundredths (-1: no number) and whether
\* their integer part is written in groups of at most three digits.
AmountNumbers ==
    { [text |-> <<"1","0",".","0","0">>, cents |-> 1000, grouped |-> TRUE],
      [text |-> <<"6","4","9",".","0","0">>, cents |-> 64900, grouped |-> TRUE],
      [text |-> <<"1",",","2","3","4",".","5","0">>, cents |-> 123450, grouped |-> TRUE],
      [text |-> <<"8","0">>, cents |-> 8000, grouped |-> TRUE],
      [text |-> <<"1","2","3","4",".","5","0">>, cents |-> 123450, grouped |-> FALSE],
      [text |-> <<"n","/","a">>, cents |-> -1, grouped |-> TRUE] }

AmountLines ==
    { [label |-> l.text, kind |-> l.kind, sep |-> sep, number |-> n.text, cents |-> n.cents,
       grouped |-> n.grouped] : l \in AmountLabels, sep \in AmountSeparators, n \in AmountNumbers }

AmountLineText(l) == l.label \o l.sep \o l.number

\* Receipts of one or two such lines.
AmountCalls ==
    { [fn |-> "extract_amount", text |-> AmountLineText(l), lines |-> <<l>>] : l \in AmountLines }
    \cup { [fn |-> "extract_amount",
            text |-> AmountLineText(l1) \o <<"\n">> \o AmountLineText(l2),
            lines |-> <<l1, l2>>] : l1 \in AmountLines, l2 \in AmountLines }

InitAmount ==
    /\ call \in AmountCalls
    /\ pc = "called"
    /\ loc = <<>>
    /\ ret = None

ExtractAmountReturn ==
    /\ pc = "called"
    /\ call.fn = "extract_amount"
    /\ ret' = Some(extract_amount(call.text))
    /\ pc' = "returned"
    /\ UNCHANGED <<call, loc>>

SpecAmount == InitAmount /\ [][ExtractAmountReturn]_vars

-----------------------------------------------------------------------------
(* Calls of extract_merchant on bounded inputs                             *)

\* The longest text has this many lines.
MaxMerchantLines == 6

\* What a line of each kind reads at each position: a line carrying one of the words
\* of line 212, in some case or inside a longer word, and a line that could name the
\* merchant; each in a sequence the positions go through.
AdminLineTexts ==
    << <<"T","a","x"," ","I","n","v","o","i","c","e">>,
       <<"B","I","L","L"," ","N","O"," ","7">>,
       <<"C","a","s","h"," ","R","e","c","e","i","p","t">>,
       <<"D","a","t","e",":"," ","1">>,
       <<"T","I","M","E"," ","9","-","5">>,
       <<"g","s","t","i","n"," ","2","7">>,
       <<"T","a","x","i"," ","Z","q">>,
       <<"S","o","m","e","t","i","m","e","s">> >>

NameLineTexts ==
    << <<" ","S","h","o","p"," ","A">>,
       <<"S","h","o","p"," ","B"," "," ">>,
       <<"\t","S","h","o","p"," ","C">>,
       <<"S","h","o","p"," ","D">>,
       <<" ","S","h","o","p"," ","E"," ">>,
       <<"S","h","o","p"," ","F">>,
       <<"S","h","o","p"," ","G"," ">>,
       <<"S","h","o","p"," ","H">> >>

MerchantLineKinds == {"blank", "name", "admin", "digits"}

MerchantLineText(kind, i) ==
    CASE kind = "blank"  -> <<>>
      [] kind = "name"   -> NameLineTexts[i]
      [] kind = "admin"  -> AdminLineTexts[i]
      [] kind = "digits" -> <<"1","2",".","5","0">>

MerchantKindSeqs ==
    UNION { [1..n -> MerchantLineKinds] : n \in 0..MaxMerchantLines }

MerchantText(kinds) ==
    Join([i \in 1..Len(kinds) |-> MerchantLineText(kinds[i], i)], <<"\n">>)

InitMerchant ==
    /\ \E kinds \in MerchantKindSeqs :
           call = [fn |-> "extract_merchant", text |-> MerchantText(kinds), kinds |-> kinds]
    /\ pc = "called"
    /\ loc = <<>>
    /\ ret = None

ExtractMerchantReturn ==
    /\ pc = "called"
    /\ call.fn = "extract_merchant"
    /\ ret' = Some(extract_merchant(call.text))
    /\ pc' = "returned"
    /\ UNCHANGED <<call, loc>>

SpecMerchant == InitMerchant /\ [][ExtractMerchantReturn]_vars

-----------------------------------------------------------------------------
(* Calls of generate_description on bounded inputs                         *)

\* The longest list has this many items.
MaxItems == 5

DescriptionItemNames ==
    << <<"I","d","l","i">>,
       <<"M","a","s","a","l","a"," ","D","o","s","a">>,
       <<"C","o","k","e">>,
       <<"T","e","a">>,
       <<"V","a","d","a">>,
       <<"C","h","a","i">>,
       <<"L","a","s","s","i">> >>

DescriptionItems(n) ==
    [i \in 1..n |-> [name |-> DescriptionItemNames[i], amount |-> 1000 * i, quantity |-> 1]]

DescriptionMerchants ==
    { None, Some(<<>>), Some(<<"C","a","f","e"," ","Z","q">>), Some(<<"T","a","j"," ","H","o","t","e","l">>) }

DescriptionCategories ==
    { <<"F","o","o","d"," ","&"," ","D","i","n","i","n","g">>,
      <<"O","t","h","e","r">>,
      <<"E","M","I"," ","&"," ","L","o","a","n","s">> }

InitDescription ==
    /\ \E m \in DescriptionMerchants, n \in 0..MaxItems, c \in DescriptionCategories :
           call = [fn |-> "generate_description", merchant |-> m, items |-> DescriptionItems(n),
                   category |-> c]
    /\ pc = "called"
    /\ loc = <<>>
    /\ ret = None

\* A call of generate_description returns.  Its tests `if merchant` and `elif merchant`
\* take None and "" alike, which OrEmpty renders.
GenerateDescriptionReturn ==
    /\ pc = "called"
    /\ call.fn = "generate_description"
    /\ ret' = Some(generate_description(OrEmpty(call.merchant), call.items, call.category))
    /\ pc' = "returned"
    /\ UNCHANGED <<call, loc>>

SpecDescription == InitDescription /\ [][GenerateDescriptionReturn]_vars

-----------------------------------------------------------------------------
(* Concurrent calls of upload_receipt                                      *)
(*                                                                         *)
(* upload_receipt is a coroutine on the one event loop of the server.  A   *)
(* coroutine keeps the loop until it awaits input or output; the loop then *)
(* runs any coroutine that is ready.  Under this specification             *)
(*   call.requests[i]  is the upload of request i: its bytes, the engine's *)
(*                     behaviour on them and the processing date           *)
(*   call.alone[i]     is what process_receipt returns on request i when   *)
(*                     no other coroutine is on the loop                   *)
(*   pc.at[i]          is the position of request i                        *)
(*   pc.running        is the request holding the loop, 0 when it is free  *)
(*   loc.frames[i]     are the locals of process_receipt in request i      *)
(*   loc.tesseract_cmd is the module attribute pytesseract.tesseract_cmd   *)
(*   loc.uploads, loc.expenses are the stored files and inserted expenses  *)
(*   ret[i]            is what process_receipt returned to request i       *)

\* The number of uploads in flight together.
MaxUploads == 2

\* pytesseract.pytesseract.tesseract_cmd as the module defines it, and as the
\* constructor of ReceiptProcessor sets it (lines 24-45): the same path in every call.
TesseractDefault == "tesseract"
TesseractPath == "/usr/bin/tesseract"

\* The stages of process_receipt, in the order of its statements.
Stages == <<"Validating", "Normalizing", "Recognizing", "Extracting", "Categorizing", "Assembling">>

\* A process_receipt that awaits after each stage.
StageAwaitsAlways(stage) == TRUE

\* Whether process_receipt gives up the event loop after a stage: its body
\* (lines 586-662) holds no await.
StageAwaits(stage) == FALSE

\* The statements of upload_receipt that await input or output: file.read()
\* (line 427), f.write (line 459) and db.expenses.insert_one (line 497).
HandlerAwaits(position) == position \in {"reading", "saving", "inserting"}

\* The pass the engine makes when it is run through tesseract_cmd.
EngineRun(cmd, p) ==
    IF cmd = TesseractPath THEN p
    ELSE [raises |-> "image_to_data", conf |-> <<>>, text |-> <<>>]

\* extract_text on the engine's three passes run through tesseract_cmd: the text, or
\* the message of the exception it raises.
extract_text(engine, cmd) ==
    LET start == [ok |-> TRUE, best_text |-> <<>>, max_confidence |-> [sum |-> 0, count |-> 1]]
        pass(i, best) ==
            IF ~best.ok THEN best
            ELSE OcrPass(EngineRun(cmd, engine.passes[i]), engine.sentinel_is_text, best)
        last == pass(3, pass(2, pass(1, start)))
    IN  IF ~last.ok THEN [ok |-> FALSE, error |-> <<"Text extraction failed: ", last.error>>]
        ELSE IF last.best_text = <<>>
        THEN [ok |-> FALSE,
              error |-> <<"Text extraction failed: ", "No readable text found in image">>]
        ELSE [ok |-> TRUE, text |-> last.best_text]

\* The result dictionary or the missing-amount failure for the text of a receipt
\* (lines 604-645).
RecordOfText(text, now) ==
    LET merchant == extract_merchant(text)
        amount == extract_amount(text)
        category_result == categorize_expense(text, Some(OrEmpty(merchant)))
    IN  IF NotAmount(amount) THEN MissingAmountFailure(text)
        ELSE SuccessRecord([amount |-> amount, date |-> extract_date(text),
                            merchant |-> merchant, items |-> extract_line_items(text),
                            category_result |-> category_result,
                            description |-> generate_description(OrEmpty(merchant),
                                                                 extract_line_items(text),
                                                                 category_result.category),
                            text |-> text], now)

\* await processor.process_receipt(contents) with no other coroutine on the loop:
\* the record it returns on the request c.
process_receipt(c) ==
    IF validate_image(c.image_bytes) # None
    THEN ValidationFailure(validate_image(c.image_bytes)[1])
    ELSE IF ~normalize(c.image_bytes).ok
    THEN ValidationFailure(normalize(c.image_bytes).error)
    ELSE IF ~extract_text(c.engine, TesseractPath).ok
    THEN ProcessingFailure(extract_text(c.engine, TesseractPath).error)
    ELSE RecordOfText(extract_text(c.engine, TesseractPath).text, c.now)

\* The uploads: an empty file, an image the normaliser turns away, an engine that
\* fails in its second pass, a receipt without an amount, and a receipt without a
\* date on either processing date.
T_Short == <<"Z","q","\n","T","O","T","A","L"," ","5",".","0","0">>

UploadRequests ==
    { [image_bytes |-> [GoodBuffer EXCEPT !.size = 0, !.pil = "raises", !.cv = "none"],
       engine |-> Engine(DefaultKinds, T_Short, TRUE), now |-> DefaultDate],
      [image_bytes |-> [GoodBuffer EXCEPT !.height = 10, !.width = 10],
       engine |-> Engine(DefaultKinds, T_Short, TRUE), now |-> DefaultDate],
      [image_bytes |-> GoodBuffer, engine |-> Engine(<<"good", "crash", "good">>, T_Short, TRUE),
       now |-> DefaultDate],
      [image_bytes |-> GoodBuffer, engine |-> Engine(<<"weak", "good", "blank">>, <<"Z", "q">>, TRUE),
       now |-> DefaultDate] }
    \cup { [image_bytes |-> GoodBuffer, engine |-> Engine(DefaultKinds, T_Short, TRUE), now |-> d] :
               d \in ProcessingDates }

Uploads == 1..MaxUploads

InitUploads ==
    /\ \E requests \in [Uploads -> UploadRequests] :
           call = [fn |-> "upload_receipt", requests |-> requests,
                   alone |-> [i \in Uploads |-> process_receipt(requests[i])]]
    /\ pc = [running |-> 0, at |-> [i \in Uploads |-> "reading"]]
    /\ loc = [tesseract_cmd |-> TesseractDefault, frames |-> [i \in Uploads |-> NoLocals],
              uploads |-> {}, expenses |-> {}]
    /\ ret = [i \in Uploads |-> None]

\* Request i runs from position `from` to position `to`; it keeps the event loop
\* unless it has awaited or has answered.
Advance(i, from, to, awaits) ==
    pc' = [running |-> IF awaits \/ to = "responded" THEN 0 ELSE i,
           at |-> [pc.at EXCEPT ![i] = to]]

\* The event loop lets request i run: it is free, or request i holds it.
Scheduled(i, position) ==
    /\ call.fn = "upload_receipt"
    /\ pc.running \in {0, i}
    /\ pc.at[i] = position

\* contents = await file.read() (line 427); an empty file is answered by the handler
\* of ValueError (lines 430-431 and 526-532) before any processor is built.
ReadFile(i) ==
    /\ Scheduled(i, "reading")
    /\ IF call.requests[i].image_bytes.size = 0
       THEN Advance(i, "reading", "responded", HandlerAwaits("reading"))
       ELSE Advance(i, "reading", "constructing", HandlerAwaits("reading"))
    /\ UNCHANGED <<call, loc, ret>>

\* processor = ReceiptProcessor() (line 435): the constructor sets tesseract_cmd.
Construct(i) ==
    /\ Scheduled(i, "constructing")
    /\ loc' = [loc EXCEPT !.tesseract_cmd = TesseractPath]
    /\ Advance(i, "constructing", "Validating", HandlerAwaits("constructing"))
    /\ UNCHANGED <<call, ret>>

\* result = await processor.process_receipt(contents) (line 439).  The stages of
\* process_receipt in request i work on the frame of request i:
\* preprocess_image, line 73 and lines 75-122, extract_text, lines 605-616 and
\* lines 620-645.
Frame(i) == loc.frames[i]

\* The exception leaves the try block of process_receipt in request i.
RaiseIn(i, stage, type, message) ==
    /\ loc' = [loc EXCEPT !.frames[i].exception = Some([type |-> type, message |-> message])]
    /\ Advance(i, stage, "Raised", StageAwaits(stage))
    /\ UNCHANGED ret

\* A stage of request i ends and the next one begins.
Proceed(i, stage, next, frame) ==
    /\ loc' = [loc EXCEPT !.frames[i] = [frame EXCEPT !.stages = Append(@, stage)]]
    /\ Advance(i, stage, next, StageAwaits(stage))
    /\ UNCHANGED ret

\* process_receipt returns to upload_receipt in request i.
ReturnIn(i, stage, record) ==
    /\ ret' = [ret EXCEPT ![i] = Some(record)]
    /\ Advance(i, stage, "returned", FALSE)
    /\ UNCHANGED loc

UploadValidate(i) ==
    /\ Scheduled(i, "Validating")
    /\ IF validate_image(call.requests[i].image_bytes) # None
       THEN RaiseIn(i, "Validating", "ValueError", validate_image(call.requests[i].image_bytes)[1])
       ELSE Proceed(i, "Validating", "Normalizing", Frame(i))
    /\ UNCHANGED call

UploadNormalize(i) ==
    /\ Scheduled(i, "Normalizing")
    /\ IF ~normalize(call.requests[i].image_bytes).ok
       THEN RaiseIn(i, "Normalizing", "ValueError", normalize(call.requests[i].image_bytes).error)
       ELSE Proceed(i, "Normalizing", "Recognizing",
                    [Frame(i) EXCEPT !.image = Some(normalize(call.requests[i].image_bytes).image)])
    /\ UNCHANGED call

UploadRecognize(i) ==
    /\ Scheduled(i, "Recognizing")
    /\ IF ~extract_text(call.requests[i].engine, loc.tesseract_cmd).ok
       THEN RaiseIn(i, "Recognizing", "Exception",
                    extract_text(call.requests[i].engine, loc.tesseract_cmd).error)
       ELSE Proceed(i, "Recognizing", "Extracting",
                    [Frame(i) EXCEPT !.psm = Len(psm_modes) + 1,
                                     !.best_text =
                                         extract_text(call.requests[i].engine, loc.tesseract_cmd).text,
                                     !.text =
                                         Some(extract_text(call.requests[i].engine,
                                                           loc.tesseract_cmd).text)])
    /\ UNCHANGED call

UploadExtract(i) ==
    /\ Scheduled(i, "Extracting")
    /\ Proceed(i, "Extracting", "Categorizing",
               [Frame(i) EXCEPT !.amount = extract_amount(Frame(i).text[1]),
                                !.date = extract_date(Frame(i).text[1]),
                                !.merchant = extract_merchant(Frame(i).text[1]),
                                !.items = extract_line_items(Frame(i).text[1])])
    /\ UNCHANGED call

UploadCategorize(i) ==
    /\ Scheduled(i, "Categorizing")
    /\ LET category_result ==
               categorize_expense(Frame(i).text[1], Some(OrEmpty(Frame(i).merchant)))
       IN  Proceed(i, "Categorizing", "Assembling",
                   [Frame(i) EXCEPT !.category_result = Some(category_result),
                                    !.description =
                                        Some(generate_description(OrEmpty(Frame(i).merchant),
                                                                  Frame(i).items,
                                                                  category_result.category))])
    /\ UNCHANGED call

UploadAssemble(i) ==
    /\ Scheduled(i, "Assembling")
    /\ IF NotAmount(Frame(i).amount)
       THEN ReturnIn(i, "Assembling", MissingAmountFailure(Frame(i).text[1]))
       ELSE ReturnIn(i, "Assembling",
                     SuccessRecord([Frame(i) EXCEPT !.category_result = @[1],
                                                    !.description = @[1], !.text = @[1]],
                                   call.requests[i].now))
    /\ UNCHANGED call

\* The except clauses of process_receipt (lines 647-662).
UploadHandle(i) ==
    /\ Scheduled(i, "Raised")
    /\ IF Frame(i).exception[1].type = "ValueError"
       THEN ReturnIn(i, "Raised", ValidationFailure(Frame(i).exception[1].message))
       ELSE ReturnIn(i, "Raised", ProcessingFailure(Frame(i).exception[1].message))
    /\ UNCHANGED call

\* Lines 442-448: the failure of the processor is answered at once.
AnswerFailure(i) ==
    /\ Scheduled(i, "returned")
    /\ ~ret[i][1].success
    /\ Advance(i, "returned", "responded", FALSE)
    /\ UNCHANGED <<call, loc, ret>>

\* Lines 450-463: the upload is stored under a fresh name; a failure to store it is
\* logged and passed over.
SaveFile(i) ==
    /\ Scheduled(i, "returned")
    /\ ret[i][1].success
    /\ \E stored \in BOOLEAN :
           loc' = [loc EXCEPT !.uploads = IF stored THEN @ \cup {i} ELSE @]
    /\ Advance(i, "returned", "saved", HandlerAwaits("saving"))
    /\ UNCHANGED <<call, ret>>

\* Lines 469-524: the expense is inserted when there is an amount and a description,
\* and the request is answered.
InsertAndAnswer(i) ==
    /\ Scheduled(i, "saved")
    /\ \E inserted \in BOOLEAN :
           loc' = [loc EXCEPT !.expenses =
                       IF upload_response(ret[i][1], inserted).expense_created
                       THEN @ \cup {i} ELSE @]
    /\ Advance(i, "saved", "responded", HandlerAwaits("inserting"))
    /\ UNCHANGED <<call, ret>>

NextUploads ==
    \E i \in Uploads :
        \/ ReadFile(i) \/ Construct(i)
        \/ UploadValidate(i) \/ UploadNormalize(i) \/ UploadRecognize(i) \/ UploadExtract(i)
        \/ UploadCategorize(i) \/ UploadAssemble(i) \/ UploadHandle(i)
        \/ AnswerFailure(i) \/ SaveFile(i) \/ InsertAndAnswer(i)

SpecUploads == InitUploads /\ [][NextUploads]_vars

-----------------------------------------------------------------------------
(* Calls of extract_text on bounded inputs                                 *)
(*                                                                         *)
(* loc holds the variables of the loop: psm, the index of the next mode in *)
(* psm_modes, best_text, max_confidence, and scored, the modes for which   *)
(* image_to_data has been read.  A call that raises ends at "raised" with  *)
(* the message in ret.                                                     *)

\* What the engine finds in one configuration: nothing, tokens of mean confidence
\* 50.5 (in two ways), 93, 95 among sentinels, 0, tokens without text, or it fails.
TextPassKinds == {"crash", "none", "weak", "even", "good", "hollow", "sparse", "zero"}

TextPassConf ==
    [crash |-> <<>>, none |-> <<-1, -1>>, weak |-> <<-1, 40, 61>>, even |-> <<50, 50, 50, 52>>,
     good |-> <<-1, 90, 96, -1>>, hollow |-> <<97>>, sparse |-> <<-1, -1, -1, -1, 95>>,
     zero |-> <<-1, 0, 0>>]

\* The string image_to_string returns in configuration i: its cleaned text names the
\* configuration.
TextOfPass(kind, i) ==
    IF kind \in {"none", "hollow"} THEN <<" ", "\n", "\t">>
    ELSE <<" ", <<"A", "B", "C">>[i], " ", "\n", "\n", "x", "\t", "\n">>

TextPass(kind, i) ==
    [raises |-> IF kind = "crash" THEN "image_to_data" ELSE "none",
     conf |-> TextPassConf[kind], text |-> TextOfPass(kind, i)]

InitText ==
    /\ \E k \in [1..3 -> TextPassKinds], s \in BOOLEAN :
           call = [fn |-> "extract_text",
                   engine |-> [passes |-> [i \in 1..3 |-> TextPass(k[i], i)],
                               sentinel_is_text |-> s]]
    /\ pc = "called"
    /\ loc = [psm |-> 1, best_text |-> <<>>, max_confidence |-> [sum |-> 0, count |-> 1],
              scored |-> <<>>]
    /\ ret = None

\* One iteration of the loop over psm_modes (lines 132-147); an exception of the
\* engine is rewrapped by line 155.
ExtractTextPass ==
    /\ pc = "called"
    /\ call.fn = "extract_text"
    /\ loc.psm <= Len(psm_modes)
    /\ LET r == OcrPass(call.engine.passes[loc.psm], call.engine.sentinel_is_text,
                        [best_text |-> loc.best_text, max_confidence |-> loc.max_confidence])
       IN  IF ~r.ok
           THEN /\ pc' = "raised"
                /\ ret' = Some(<<"Text extraction failed: ", r.error>>)
                /\ UNCHANGED loc
           ELSE /\ loc' = [psm |-> loc.psm + 1, best_text |-> r.best_text,
                           max_confidence |-> r.max_confidence,
                           scored |-> Append(loc.scored, psm_modes[loc.psm])]
                /\ UNCHANGED <<pc, ret>>
    /\ UNCHANGED call

\* After the loop (lines 149-152).
ExtractTextEnd ==
    /\ pc = "called"
    /\ call.fn = "extract_text"
    /\ loc.psm > Len(psm_modes)
    /\ IF loc.best_text = <<>>
       THEN /\ pc' = "raised"
            /\ ret' = Some(<<"Text extraction failed: ", "No readable text found in image">>)
       ELSE /\ pc' = "returned"
            /\ ret' = Some(loc.best_text)
    /\ UNCHANGED <<call, loc>>

SpecText == InitText /\ [][ExtractTextPass \/ ExtractTextEnd]_vars

-----------------------------------------------------------------------------
(* Calls of categorize_expense on its own keywords                         *)

\* categorize_expense(keyword, "") for each keyword of each list; call.rule is the
\* index in Rules of the list the keyword is taken from.
InitKeywords ==
    /\ \E r \in 1..Len(Rules) : \E k \in 1..Len(Rules[r].keywords) :
           call = [fn |-> "categorize_expense", text |-> Rules[r].keywords[k],
                   merchant |-> Some(<<>>), rule |-> r]
    /\ pc = "called"
    /\ loc = <<>>
    /\ ret = None

SpecKeywords == InitKeywords /\ [][CategorizeReturn]_vars

-----------------------------------------------------------------------------
(* Properties                                                              *)

Returned(fn) == pc = "returned" /\ call.fn = fn

kw_restaurant == <<"r","e","s","t","a","u","r","a","n","t">>
kw_hotel == <<"h","o","t","e","l">>
Accommodation == <<"A","c","c","o","m","m","o","d","a","t","i","o","n">>
FoodAndDining == <<"F","o","o","d"," ","&"," ","D","i","n","i","n","g">>

\* The categories the return statements of categorize_expense name.
Categories ==
    { Accommodation,
      <<"B","i","l","l","s"," ","&"," ","U","t","i","l","i","t","i","e","s">>,
      FoodAndDining,
      <<"T","r","a","n","s","p","o","r","t","a","t","i","o","n">>,
      <<"S","h","o","p","p","i","n","g"," ","&"," ","C","l","o","t","h","e","s">>,
      <<"H","e","a","l","t","h","c","a","r","e">>,
      <<"G","r","o","c","e","r","i","e","s"," ","&"," ","H","o","u","s","e","h","o","l","d">>,
      <<"M","o","b","i","l","e"," ","&"," ","I","n","t","e","r","n","e","t">>,
      <<"E","n","t","e","r","t","a","i","n","m","e","n","t">>,
      <<"O","f","f","i","c","e"," ","E","x","p","e","n","s","e">>,
      <<"T","r","a","v","e","l"," ","&"," ","V","a","c","a","t","i","o","n">>,
      <<"E","d","u","c","a","t","i","o","n"," ","&"," ","C","o","u","r","s","e","s">>,
      <<"H","o","m","e"," ","&"," ","F","a","m","i","l","y">>,
      <<"P","e","r","s","o","n","a","l"," ","C","a","r","e">>,
      <<"G","i","f","t","s"," ","&"," ","F","e","s","t","i","v","a","l","s">>,
      <<"E","M","I"," ","&"," ","L","o","a","n","s">>,
      <<"I","n","v","e","s","t","m","e","n","t","s"," ","&"," ","S","I","P">>,
      Other }

\* Whether some keyword of rule r occurs in the lower-cased text or merchant of the call.
RuleHasKeyword(r) ==
    \E k \in 1..Len(Rules[r].keywords) :
        \/ Contains(Rules[r].keywords[k], Lower(call.text))
        \/ Contains(Rules[r].keywords[k], Lower(OrEmpty(call.merchant)))

BothRestaurantAndHotel ==
    /\ Contains(kw_restaurant, Lower(call.text))
    /\ Contains(kw_hotel, Lower(call.text))

\* C4: every text that contains both "restaurant" and "hotel" (any case, any merchant)
\* is categorized Food & Dining, not Accommodation.
C4_RestaurantAndHotelIsFood ==
    (Returned("categorize_expense") /\ BothRestaurantAndHotel)
        => ret[1].category = FoodAndDining

\* C5: categorize_expense returns for every text and merchant (None and "" included)
\* exactly one category of the closed set; the result is Other with low confidence
\* exactly when no keyword of any rule occurs in the lower-cased text or merchant, and
\* the confidence is high in every other case.
C5_CategorizeTotal ==
    /\ (pc = "called" /\ call.fn = "categorize_expense") => ENABLED CategorizeReturn
    /\ Returned("categorize_expense") =>
           /\ ret[1].category \in Categories
           /\ ret[1].confidence \in {"high", "low"}
           /\ (ret[1].category = Other /\ ret[1].confidence = "low")
                  <=> (\A r \in 1..Len(Rules) : ~RuleHasKeyword(r))
           /\ (\E r \in 1..Len(Rules) : RuleHasKeyword(r)) => ret[1].confidence = "high"

\* C5 witness: a call with a non-empty text and no merchant at all (None) returned
\* the fallback category.
C5_Witness_Fallback ==
    /\ Returned("categorize_expense")
    /\ call.merchant = None
    /\ call.text # <<>>
    /\ ret[1].category = Other

\* The order of the rules as the claim lists it, by the label of each rule's reason.
ClaimedOrder ==
    << "accommodation", "electricity", "food", "transport", "shopping", "healthcare",
       "grocery", "mobile/internet", "entertainment", "office", "utility", "travel",
       "education", "home/family", "personal care", "gifts/festival", "EMI/loan",
       "investment" >>

RuleLabelled(label) == CHOOSE r \in 1..Len(Rules) : Rules[r].label = label

AllDigits(s, positions) == \A i \in positions : IsDigit(s[i])

\* A text that is exactly one valid calendar date written DD-MM-YYYY.
IsDayMonthYear(t) ==
    /\ Len(t) = 10 /\ t[3] = "-" /\ t[6] = "-"
    /\ AllDigits(t, {1, 2, 4, 5, 7, 8, 9, 10})
    /\ MakeDate(ToInt(SubSeq(t, 7, 10)), ToInt(SubSeq(t, 4, 5)), ToInt(SubSeq(t, 1, 2))) # None

\* A text that is exactly one valid calendar date written YYYY-MM-DD.
IsYearMonthDay(t) ==
    /\ Len(t) = 10 /\ t[5] = "-" /\ t[8] = "-"
    /\ AllDigits(t, {1, 2, 3, 4, 6, 7, 9, 10})
    /\ MakeDate(ToInt(SubSeq(t, 1, 4)), ToInt(SubSeq(t, 6, 7)), ToInt(SubSeq(t, 9, 10))) # None

\* C8, first half: a valid date written DD-MM-YYYY comes back as YYYY-MM-DD.
DayMonthYearIsNormalized ==
    (Returned("extract_date") /\ IsDayMonthYear(call.text)) =>
        ret[1] = Some(SubSeq(call.text, 7, 10) \o <<"-">> \o SubSeq(call.text, 4, 5)
                      \o <<"-">> \o SubSeq(call.text, 1, 2))

\* C8: extract_date maps a valid DD-MM-YYYY date to YYYY-MM-DD, maps every valid date
\* already written YYYY-MM-DD to itself, and applied to its own non-null output
\* returns that output again.
C8_DateRoundTrip ==
    Returned("extract_date") =>
        /\ DayMonthYearIsNormalized
        /\ IsYearMonthDay(call.text) => ret[1] = Some(call.text)
        /\ ret[1] # None => extract_date(ret[1][1]) = ret[1]

\* C9: a non-summary line "<q> x <name> <amount>" or "<name> x<q> <amount>" yields
\* exactly one item with quantity q, the trailing amount and the name without the
\* quantity marker; a line without a marker yields quantity 1.
C9_QuantityLine ==
    Returned("extract_line_items") =>
        ret[1] = <<[name |-> call.name, amount |-> call.cents, quantity |-> call.q]>>

\* C9 on the lines whose name has no digit at all and whose amount has no glyph.
QuantityLineOfPlainName ==
    (/\ Returned("extract_line_items")
     /\ \A i \in 1..Len(call.name) : ~IsDigit(call.name[i])
     /\ ~Contains(<<"RUPEE">>, call.text))
        => ret[1] = <<[name |-> call.name, amount |-> call.cents, quantity |-> call.q]>>

-----------------------------------------------------------------------------
(* Properties of process_receipt                                           *)

Range(s) == {s[i] : i \in 1..Len(s)}

\* The stage named has run to its end in this call.
Passed(stage) == stage \in Range(loc.stages)

\* The call has returned a record after the OCR stage failed on a normalised image.
OcrFailed ==
    /\ Returned("process_receipt")
    /\ Passed("Normalizing")
    /\ ~Passed("Recognizing")

\* C1: process_receipt never raises: an exception raised by a stage meets one of the
\* except clauses, and every outcome is a success record or a failure record
\* {success: false, error, error_type}.  Validation and normalisation failures give
\* error_type "validation"; OCR failures give "processing" with the fixed generic
\* message, which holds none of the engine's error text.
C1_EveryOutcomeIsARecord ==
    /\ InCall("Raised") => ENABLED (HandleValueError \/ HandleException)
    /\ Returned("process_receipt") =>
           /\ ret # None
           /\ ret[1].success \in BOOLEAN
           /\ ~ret[1].success =>
                  /\ {"success", "error", "error_type"} \subseteq DOMAIN ret[1]
                  /\ ret[1].error_type \in {"validation", "processing"}
           /\ (validate_image(call.image_bytes) # None \/ ~normalize(call.image_bytes).ok) =>
                  /\ ~ret[1].success
                  /\ ret[1].error_type = "validation"
           /\ OcrFailed =>
                  /\ ~ret[1].success
                  /\ ret[1].error_type = "processing"
                  /\ ret[1].error = GenericProcessingMessage
                  /\ EngineErrorText \notin Range(ret[1].error)
                  /\ "No readable text found in image" \notin Range(ret[1].error)

\* C1 witness: the engine raised in its second pass, after a first pass that had
\* found text, and the call returned.
C1_Witness_EngineRaised ==
    /\ OcrFailed
    /\ loc.psm = 2
    /\ loc.best_text # <<>>
    /\ call.engine.passes[2].raises = "image_to_string"

\* C2: a record with success=true has an amount and a date: the processing date
\* written YYYY-MM-DD when extract_date found none, the extracted date otherwise.
C2_SuccessHasAmountAndDate ==
    (Returned("process_receipt") /\ ret[1].success) =>
        /\ ret[1].amount # None
        /\ ret[1].date # None
        /\ extract_date(loc.text[1]) # None => ret[1].date = extract_date(loc.text[1])
        /\ extract_date(loc.text[1]) = None =>
               LET d == ret[1].date[1]
               IN  /\ Len(d) = 10 /\ d[5] = "-" /\ d[8] = "-"
                   /\ AllDigits(d, {1, 2, 3, 4, 6, 7, 9, 10})
                   /\ ToInt(SubSeq(d, 1, 4)) = call.now.year
                   /\ ToInt(SubSeq(d, 6, 7)) = call.now.month
                   /\ ToInt(SubSeq(d, 9, 10)) = call.now.day

\* C2 witness: a receipt with an amount and no date, processed on 29 February 2024.
C2_Witness_DateDefaulted ==
    /\ Returned("process_receipt")
    /\ ret[1].success
    /\ loc.date = None
    /\ call.now.month = 2

\* C3: when OCR gave a text in which extract_amount finds nothing, the call returns
\* success=false, error_type "validation", the message asking for a clear image, and
\* raw_text: the text itself up to 500 characters, its first 500 followed by "..."
\* beyond.
C3_MissingAmountRecord ==
    (/\ Returned("process_receipt")
     /\ Passed("Recognizing")
     /\ extract_amount(loc.text[1]) = None) =>
        /\ loc.text[1] # <<>>
        /\ ~ret[1].success
        /\ ret[1].error_type = "validation"
        /\ ret[1].error = <<"Could not find a valid amount in the receipt. Please ensure the receipt image is clear and contains readable text.">>
        /\ "raw_text" \in DOMAIN ret[1]
        /\ Len(loc.text[1]) <= 500 => ret[1].raw_text = loc.text[1]
        /\ Len(loc.text[1]) > 500 =>
               /\ Len(ret[1].raw_text) = 503
               /\ \A i \in 1..500 : ret[1].raw_text[i] = loc.text[1][i]
               /\ \A i \in 501..503 : ret[1].raw_text[i] = "."

\* C3 witness: a text of more than 500 characters without an amount was returned
\* cut.
C3_Witness_LongTextCut ==
    /\ Returned("process_receipt")
    /\ Passed("Recognizing")
    /\ loc.amount = None
    /\ Len(loc.text[1]) > 500
    /\ ret[1].raw_text # loc.text[1]

\* The call has returned on the recognized text MARIO'S PIZZERIA / TOTAL: Rs 649.00.
ReturnedOnMario ==
    /\ Returned("process_receipt")
    /\ Passed("Recognizing")
    /\ loc.text = Some(T_Mario)

\* C7 as claimed: the two-line receipt of MARIO'S PIZZERIA gives success=true, amount
\* 649.00, Food & Dining with high confidence through the keyword "pizza", and
\* needs_confirmation=false.
C7_MarioIsFoodAndDining ==
    ReturnedOnMario =>
        /\ ret[1].success
        /\ ret[1].amount = Some(64900)
        /\ ret[1].category = FoodAndDining
        /\ ret[1].category_confidence = "high"
        /\ ret[1].category_reason.keyword = <<"p","i","z","z","a">>
        /\ ret[1].needs_confirmation = FALSE

\* C7: the two-line receipt of MARIO'S PIZZERIA gives success=true and amount 649.00;
\* no keyword of any rule occurs in it ("pizza" is no substring of "pizzeria"), so the
\* category is Other with low confidence and needs_confirmation=true.
C7_MarioIsOther ==
    ReturnedOnMario =>
        /\ ret[1].success
        /\ ret[1].amount = Some(64900)
        /\ ~Contains(<<"p","i","z","z","a">>, Lower(T_Mario))
        /\ ret[1].category = Other
        /\ ret[1].category_confidence = "low"
        /\ ret[1].needs_confirmation = TRUE

\* C7 witness: the call on that receipt returned a success record naming the merchant.
C7_Witness_MarioReturned ==
    /\ ReturnedOnMario
    /\ ret[1].success
    /\ ret[1].merchant = Some(SubSeq(T_Mario, 1, 16))

\* validate_image has run on the buffer of the call.
ValidateActed == call.fn = "process_receipt" /\ pc # "Validating"

\* PIL identifies the buffer as an image of one of the four supported formats.
IsSupportedImage(b) == b.pil = "opens" /\ b.format \in {"JPEG", "PNG", "BMP", "TIFF"}

\* validate_image raised ValueError.
ValidateRaised ==
    /\ ~Passed("Validating")
    /\ loc.exception # None
    /\ loc.exception[1].type = "ValueError"

\* C10 as claimed: validate_image succeeds exactly for the valid JPEG, PNG, BMP and
\* TIFF images of at least 100x100 pixels and at most 10 MiB, and raises ValueError
\* for every other buffer, the supported image below 100 pixels included.
C10_ValidateChecksDimensions ==
    ValidateActed =>
        LET b == call.image_bytes
            valid == /\ b.size > 0 /\ b.size <= 10 * 1024 * 1024
                     /\ IsSupportedImage(b)
                     /\ b.height >= 100 /\ b.width >= 100
        IN  /\ valid => Passed("Validating")
            /\ ~valid => ValidateRaised

\* C10: validate_image succeeds exactly for the non-empty buffers of at most 10 MiB
\* that open as a JPEG, PNG, BMP or TIFF image, whatever their width and height, and
\* raises ValueError for every other buffer.
C10_ValidateIgnoresDimensions ==
    ValidateActed =>
        LET b == call.image_bytes
            valid == /\ b.size > 0 /\ b.size <= 10 * 1024 * 1024
                     /\ IsSupportedImage(b)
        IN  /\ valid => Passed("Validating")
            /\ ~valid => ValidateRaised

\* C10 witness: a 5x5 PNG passed validate_image.
C10_Witness_SmallImagePassed ==
    /\ ValidateActed
    /\ Passed("Validating")
    /\ call.image_bytes.format = "PNG"
    /\ call.image_bytes.height = 5 /\ call.image_bytes.width = 5

\* The message of the exception raised in this call.
RaisedMessage == loc.exception[1].message

\* C11: validate_image is fail-fast: an empty buffer fails with "Empty image data";
\* otherwise a buffer of more than 10*1024*1024 bytes fails on its size before any
\* decoding, and one of exactly 10 MiB does not fail on its size; otherwise the buffer
\* fails unless it parses as JPEG, PNG, BMP or TIFF.  Every failure is a ValueError,
\* and validate_image changes nothing but the control state.
C11_ValidateFailFast ==
    ValidateActed =>
        LET b == call.image_bytes
            raised == ~Passed("Validating")
        IN  /\ raised => /\ loc.exception # None
                         /\ loc.exception[1].type = "ValueError"
            /\ b.size = 0 => raised /\ RaisedMessage = <<"Empty image data">>
            /\ b.size > 10 * 1024 * 1024 =>
                   raised /\ RaisedMessage = <<"Image file too large (max 10MB)">>
            /\ (raised /\ b.size = 10 * 1024 * 1024) =>
                   RaisedMessage # <<"Image file too large (max 10MB)">>
            /\ (b.size > 0 /\ b.size <= 10 * 1024 * 1024) =>
                   /\ raised <=> ~IsSupportedImage(b)
                   /\ raised => RaisedMessage[1] = "Invalid image file: "
            /\ (pc = "Normalizing" \/ (pc = "Raised" /\ raised)) =>
                   /\ ret = None
                   /\ [loc EXCEPT !.stages = <<>>, !.exception = None] = NoLocals

\* C11 witness: a buffer of more than 10 MiB that no decoder would open was turned
\* away for its size.
C11_Witness_OversizeBeforeDecode ==
    /\ ValidateActed
    /\ ~Passed("Validating")
    /\ call.image_bytes.pil = "raises"
    /\ call.image_bytes.size > 10 * 1024 * 1024
    /\ RaisedMessage = <<"Image file too large (max 10MB)">>

\* preprocess_image has run its try block on an image that validate_image accepted
\* and cv2.imdecode decoded.
NormalizeActedOnImage ==
    /\ call.fn = "process_receipt"
    /\ pc \notin {"Validating", "Normalizing"}
    /\ Passed("Validating")
    /\ call.image_bytes.cv # "none"

TooSmallMessage ==
    <<"Image preprocessing failed: ", "Image too small (minimum 100x100 pixels)">>

\* C12: for every decodable image (one that validate_image accepted and
\* cv2.imdecode decoded) whose height or width is below 100 pixels, preprocess_image
\* fails with a preprocessing error saying the image is too small, before any rescale,
\* threshold or OCR step, and process_receipt reports a validation-class failure; an
\* image of 100 by 100 pixels is not turned away as too small.
C12_TooSmallIsValidation ==
    NormalizeActedOnImage =>
        LET b == call.image_bytes
        IN  /\ (b.height < 100 \/ b.width < 100) =>
                   /\ ~Passed("Normalizing")
                   /\ loc.exception # None
                   /\ RaisedMessage = TooSmallMessage
                   /\ loc.image = None
                   /\ loc.psm = 1 /\ loc.best_text = <<>> /\ loc.text = None
                   /\ pc \in {"Raised", "returned", "responded"}
                   /\ pc = "returned" =>
                          ret[1] = [success |-> FALSE, error |-> TooSmallMessage,
                                    error_type |-> "validation"]
            /\ (b.height = 100 /\ b.width = 100 /\ b.cv = "image") =>
                   /\ Passed("Normalizing")
                   /\ loc.exception # None => RaisedMessage # TooSmallMessage

\* C12 witness: the call on a 10x10 image returned the validation failure.
C12_Witness_TenByTen ==
    /\ NormalizeActedOnImage
    /\ call.image_bytes.height = 10 /\ call.image_bytes.width = 10
    /\ pc = "returned"
    /\ ret[1].error_type = "validation"

LongerSide(shape) == IF shape[1] > shape[2] THEN shape[1] ELSE shape[2]

\* C13: for every image the normaliser accepts, with longer side L: the output's
\* longer side is 1200 pixels within one pixel when L < 1000, exactly 4000 pixels when
\* L > 4000, and the output has the input's height and width when 1000 <= L <= 4000.
C13_ResizedLongerSide ==
    (call.fn = "process_receipt" /\ Passed("Normalizing")) =>
        LET b == call.image_bytes
            L == LongerSide(<<b.height, b.width>>)
            out == loc.image[1].shape
        IN  /\ L < 1000 => LongerSide(out) \in 1199..1201
            /\ L > 4000 => LongerSide(out) = 4000
            /\ (1000 <= L /\ L <= 4000) => out = <<b.height, b.width>>

\* C13 without the exactness above 4000: there too the longer side is within one
\* pixel of its target.
ResizedWithinOnePixel ==
    (call.fn = "process_receipt" /\ Passed("Normalizing")) =>
        LET b == call.image_bytes
            L == LongerSide(<<b.height, b.width>>)
            out == loc.image[1].shape
        IN  /\ L < 1000 => LongerSide(out) \in 1199..1200
            /\ L > 4000 => LongerSide(out) \in 3999..4000
            /\ (1000 <= L /\ L <= 4000) => out = <<b.height, b.width>>

\* extract_text has returned or raised in this call.
RecognizeEnded ==
    /\ call.fn = "process_receipt"
    /\ Passed("Normalizing")
    /\ \/ Passed("Recognizing")
       \/ (pc \in {"Raised", "returned"} /\ loc.exception # None)

NoTextFoundMessage == <<"Text extraction failed: ", "No readable text found in image">>

EngineRaised ==
    loc.exception # None /\ RaisedMessage = <<"Text extraction failed: ", EngineErrorText>>

\* The configuration psm_modes[i] yields recognized tokens (confidences other than
\* the -1 of "no text") and a cleaned text that is not empty.
YieldsText(i) ==
    LET p == call.engine.passes[i]
    IN  /\ p.raises = "none"
        /\ \E k \in 1..Len(p.conf) : p.conf[k] # -1
        /\ CleanText(p.text) # <<>>

\* C14: absent an engine exception, extract_text fails with "no text found" exactly
\* when no page-segmentation configuration yields a non-empty cleaned text: whenever
\* one of the three yields recognized tokens and a non-empty cleaned text, it returns
\* a non-empty text.
C14_NoTextFoundOnlyWithoutText ==
    (RecognizeEnded /\ ~EngineRaised) =>
        LET failed == loc.exception # None /\ RaisedMessage = NoTextFoundMessage
            some == \E i \in 1..Len(psm_modes) : YieldsText(i)
        IN  /\ failed <=> ~some
            /\ some => /\ Passed("Recognizing")
                       /\ loc.text # None
                       /\ loc.text[1] # <<>>

\* What holds of extract_text: a text it returns is not empty, and it fails with "no
\* text found" whenever no configuration yields tokens and a non-empty cleaned text.
NoTextFoundWithoutText ==
    (RecognizeEnded /\ ~EngineRaised) =>
        LET failed == loc.exception # None /\ RaisedMessage = NoTextFoundMessage
            some == \E i \in 1..Len(psm_modes) : YieldsText(i)
        IN  /\ ~some => failed
            /\ ~failed => /\ Passed("Recognizing")
                          /\ loc.text # None
                          /\ loc.text[1] # <<>>

\* The lines of the call, in order, that carry a label of the kind and a number.
NumberedLines(kind) ==
    SelectSeq(call.lines, LAMBDA l : l.kind = kind /\ l.cents >= 0)

AllGrouped == \A i \in 1..Len(call.lines) : call.lines[i].grouped

TrimmedName(i) == <<"S","h","o","p"," ", <<"A","B","C","D","E","F","G","H">>[i]>>

\* The result the first line of kind "name" among the positions gives, null without
\* such a line.
MerchantAmong(positions) ==
    LET named == {i \in positions : call.kinds[i] = "name"}
    IN  IF named = {} THEN None ELSE Some(TrimmedName(MinOf(named)))

\* The first n positions of the call whose line is not empty.
FirstNonEmpty(n) ==
    LET filled == {i \in 1..Len(call.kinds) : call.kinds[i] # "blank"}
    IN  {i \in filled : Cardinality({j \in filled : j <= i}) <= n}

\* C17 as claimed: extract_merchant looks at the first 5 non-empty lines only, skips
\* the lines holding bill, invoice, receipt, date, time, gst or tax, and returns,
\* trimmed, the first remaining line with a letter; null when none of those 5 lines
\* qualifies.
C17_FirstFiveNonEmptyLines ==
    Returned("extract_merchant") => ret[1] = MerchantAmong(FirstNonEmpty(5))

\* C17: extract_merchant looks at the first 5 lines only, the empty ones counted,
\* skips the lines holding bill, invoice, receipt, date, time, gst or tax in any case
\* and inside longer words, and returns, trimmed, the first remaining line with a
\* letter; null when none of those 5 lines qualifies, even if a later line would.
C17_FirstFiveLines ==
    Returned("extract_merchant") =>
        ret[1] = MerchantAmong({i \in 1..Len(call.kinds) : i <= 5})

\* C17 witness: an empty line among the first five and a merchant line in sixth
\* place, which is among the first 5 non-empty lines, gave null.
C17_Witness_SixthLineIgnored ==
    /\ Returned("extract_merchant")
    /\ Len(call.kinds) = 6
    /\ call.kinds[6] = "name"
    /\ call.kinds[1] = "blank"
    /\ \A i \in 2..5 : call.kinds[i] \in {"admin", "digits"}
    /\ ret[1] = None

\* The names of the items of the call from the k-th on, joined by ", ".
RECURSIVE CommaJoinedFrom(_)
CommaJoinedFrom(k) ==
    IF k = Len(call.items) THEN call.items[k].name
    ELSE call.items[k].name \o <<",", " ">> \o CommaJoinedFrom(k + 1)

\* The category of the call in lower case, written out.
CategoryLowerCased ==
    CASE call.category = <<"F","o","o","d"," ","&"," ","D","i","n","i","n","g">> -> <<"f","o","o","d"," ","&"," ","d","i","n","i","n","g">>
      [] call.category = <<"O","t","h","e","r">> -> <<"o","t","h","e","r">>
      [] call.category = <<"E","M","I"," ","&"," ","L","o","a","n","s">> -> <<"e","m","i"," ","&"," ","l","o","a","n","s">>

\* C18: generate_description returns "{item} from {merchant}" for a merchant and 1
\* item; the comma-joined names and " from {merchant}" for a merchant and 2 or 3
\* items; "Multiple items from {merchant}" for a merchant and more than 3 items;
\* "Purchase from {merchant}" for a merchant and no item; the item's name for no
\* merchant and 1 item; "Multiple items - {category in lower case}" for no merchant
\* and 2 or more items; "Expense - {category in lower case}" for neither.  A null or
\* empty merchant is no merchant.
C18_DescriptionCases ==
    Returned("generate_description") =>
        LET n == Len(call.items)
            some == call.merchant # None /\ call.merchant[1] # <<>>
            from == <<" ","f","r","o","m"," ">> \o (IF some THEN call.merchant[1] ELSE <<>>)
        IN  /\ (some /\ n = 1) => ret[1] = call.items[1].name \o from
            /\ (some /\ n \in {2, 3}) => ret[1] = CommaJoinedFrom(1) \o from
            /\ (some /\ n > 3) => ret[1] = <<"M","u","l","t","i","p","l","e"," ","i","t","e","m","s">> \o from
            /\ (some /\ n = 0) => ret[1] = <<"P","u","r","c","h","a","s","e">> \o from
            /\ (~some /\ n = 1) => ret[1] = call.items[1].name
            /\ (~some /\ n >= 2) => ret[1] = <<"M","u","l","t","i","p","l","e"," ","i","t","e","m","s"," ","-"," ">> \o CategoryLowerCased
            /\ (~some /\ n = 0) => ret[1] = <<"E","x","p","e","n","s","e"," ","-"," ">> \o CategoryLowerCased

\* C18 witness: a merchant and exactly 3 items gave the three names joined.
C18_Witness_ThreeItems ==
    /\ Returned("generate_description")
    /\ Len(call.items) = 3
    /\ call.merchant = Some(<<"T","a","j"," ","H","o","t","e","l">>)
    /\ ret[1] = <<"I","d","l","i",","," ","M","a","s","a","l","a"," ","D","o","s","a",","," ","C","o","k","e"," ","f","r","o","m"," ","T","a","j"," ","H","o","t","e","l">>

\* C19: every item extract_line_items emits has a non-empty name, an amount of at
\* least 0 and a quantity of at least 1: a line such as "0 x Idli 40.00" gives no item
\* of quantity 0.
C19_ItemsWellFormed ==
    Returned("extract_line_items") =>
        \A i \in 1..Len(ret[1]) :
            /\ ret[1][i].name # <<>>
            /\ ret[1][i].amount >= 0
            /\ ret[1][i].quantity \in Nat
            /\ ret[1][i].quantity >= 1

\* C19 without the lower bound on the quantity: names are not empty, and neither
\* amounts nor quantities are negative.
ItemsNamedAndNonNegative ==
    Returned("extract_line_items") =>
        \A i \in 1..Len(ret[1]) :
            /\ ret[1][i].name # <<>>
            /\ ret[1][i].amount >= 0
            /\ ret[1][i].quantity \in Nat

\* upload_receipt has answered a receipt that process_receipt processed with success.
RespondedWithSuccess ==
    /\ call.fn = "process_receipt"
    /\ pc = "responded"
    /\ ret[1].success

\* C20: every successful receipt-processing response carries an extracted_data record
\* with all of the keys merchant, amount, date, category, description and confidence.
C20_ExtractedDataKeys ==
    RespondedWithSuccess =>
        /\ "extracted_data" \in DOMAIN ret[1]
        /\ {"merchant", "amount", "date", "category", "description", "confidence"}
               \subseteq DOMAIN ret[1].extracted_data

\* C20 with the key the response does carry: the confidence is under
\* category_confidence, and there is no key confidence.
ExtractedDataKeysOfTheCode ==
    RespondedWithSuccess =>
        /\ "extracted_data" \in DOMAIN ret[1]
        /\ {"merchant", "amount", "date", "category", "description", "category_confidence"}
               \subseteq DOMAIN ret[1].extracted_data
        /\ "confidence" \notin DOMAIN ret[1].extracted_data
        /\ "success" \notin DOMAIN ret[1].extracted_data

(* Properties of concurrent uploads                                        *)

\* Request i is inside process_receipt: it has begun and has not returned.
InsideProcessReceipt(i) == pc.at[i] \in Range(Stages) \cup {"Raised"}

\* C21: invocations of process_receipt are isolated.  Under every interleaving of the
\* uploads the event loop allows, at most one request is inside process_receipt (it
\* has no suspension point between its stages), what it computes with is its own
\* frame and the tesseract_cmd every constructor sets alike, and each result is the
\* one process_receipt returns when it runs alone on the same request.
C21_InvocationsIsolated ==
    call.fn = "upload_receipt" =>
        /\ Cardinality({i \in Uploads : InsideProcessReceipt(i)}) <= 1
        /\ \A i \in Uploads :
               /\ InsideProcessReceipt(i) => pc.running = i /\ loc.tesseract_cmd = TesseractPath
               /\ ret[i] # None => ret[i][1] = call.alone[i]
               /\ ret[i] # None => pc.at[i] \in {"returned", "saved", "responded"}
               /\ pc.at[i] \in {"returned", "saved"} => ret[i] # None

\* C21 witness: request 1 is suspended in upload_receipt after process_receipt has
\* returned to it, request 2 has run process_receipt meanwhile and has been answered,
\* and the two results carry the processing dates of their own requests.
C21_Witness_Interleaved ==
    /\ call.fn = "upload_receipt"
    /\ pc.at[1] = "saved" /\ pc.at[2] = "responded"
    /\ ret[2] # None
    /\ ret[1][1].success /\ ret[2][1].success
    /\ ret[1][1].date # ret[2][1].date
    /\ ret[1][1].date = Some(strftime_Ymd(call.requests[1].now))

(* Properties of the order of the stages                                   *)

\* The stages process_receipt has run to their end, as many as there are.
StagesDone == Len(loc.stages)

\* C22: process_receipt runs its stages in the order validate, normalize, recognize,
\* extract, categorize.  A stage is under way only when exactly the stages before it
\* have run to their end; only the first three stages fail, and after a failure no
\* further stage runs and the call returns a failure record; the missing-amount
\* record and the success record are returned only after all five stages.
C22_StagesInOrder ==
    call.fn = "process_receipt" =>
        /\ loc.stages = SubSeq(Stages, 1, StagesDone)
        /\ StagesDone <= 5
        /\ pc \in Range(Stages) => pc = Stages[StagesDone + 1]
        /\ pc = "Raised" => loc.exception # None
        /\ loc.exception # None =>
               /\ pc \in {"Raised", "returned", "responded"}
               /\ StagesDone < 3
               /\ pc = "returned" =>
                      /\ ~ret[1].success
                      /\ "raw_text" \notin DOMAIN ret[1]
        /\ (pc = "returned" /\ loc.exception = None) =>
               /\ StagesDone = 5
               /\ ret[1].success \/ "raw_text" \in DOMAIN ret[1]
               /\ ret[1].success <=> ~NotAmount(loc.amount)

\* C22 witness: the call returned the missing-amount record after extraction and
\* categorization had run on a text with a merchant and no amount.
C22_Witness_MissingAmountLast ==
    /\ Returned("process_receipt")
    /\ ~ret[1].success
    /\ "raw_text" \in DOMAIN ret[1]
    /\ loc.stages = SubSeq(Stages, 1, 5)
    /\ loc.merchant # None
    /\ loc.category_result # None

(* Properties of extract_text                                              *)

\* The confidences of configuration i without the -1 of "no text", and their mean as
\* a sum over a count.
TokenConfidences(i) == SelectSeq(call.engine.passes[i].conf, LAMBDA x : x # -1)

TokenMean(i) == [sum |-> SumSeq(TokenConfidences(i)), count |-> Len(TokenConfidences(i))]

\* The configurations that have tokens and a cleaned text that is not empty.
WithText ==
    {i \in 1..3 : TokenConfidences(i) # <<>> /\ CleanText(call.engine.passes[i].text) # <<>>}

\* Configuration i has the highest mean among them, and is the first that has it.
HighestMean(i) ==
    /\ i \in WithText
    /\ \A j \in WithText :
           /\ ~MeanGreater(TokenMean(j), TokenMean(i))
           /\ j < i => MeanGreater(TokenMean(i), TokenMean(j))

\* C23: extract_text scores the three configurations in the order 6, 3, 4 before it
\* returns, and the text it returns is the cleaned text of the configuration with
\* the highest mean token confidence among those whose cleaned text is not empty,
\* the -1 tokens left out of the mean, the earlier configuration on equal means.
C23_TextOfHighestMean ==
    Returned("extract_text") =>
        /\ loc.scored = psm_modes
        /\ \E i \in WithText :
               /\ HighestMean(i)
               /\ ret[1] = CleanText(call.engine.passes[i].text)

\* What the code does: the claim holds when the engine hands the -1 over as the
\* string '-1', which line 139 filters out.
TextOfHighestMeanWithStringSentinel ==
    (Returned("extract_text") /\ call.engine.sentinel_is_text) =>
        /\ loc.scored = psm_modes
        /\ \E i \in WithText :
               /\ HighestMean(i)
               /\ ret[1] = CleanText(call.engine.passes[i].text)

\* C24: for a total-labelled number in any accepted format, with or without
\* thousands separators, a 2-digit fraction and a rupee sign, extract_amount returns
\* the full value of the number: "TOTAL: 1234.50" gives 1234.50 as "TOTAL: 1,234.50"
\* does.
C24_FullValueOfLabelledNumber ==
    (/\ Returned("extract_amount")
     /\ Len(call.lines) = 1
     /\ call.lines[1].kind \in {"specific", "bare"}
     /\ call.lines[1].cents >= 0) =>
        ret[1] = Some(call.lines[1].cents)

(* Properties of extract_date on month names and invalid dates            *)

MonthNames ==
    << <<"j","a","n">>, <<"f","e","b">>, <<"m","a","r">>, <<"a","p","r">>,
       <<"m","a","y">>, <<"j","u","n">>, <<"j","u","l">>, <<"a","u","g">>,
       <<"s","e","p">>, <<"o","c","t">>, <<"n","o","v">>, <<"d","e","c">> >>

MonthNumber(name) == CHOOSE m \in 1..12 : MonthNames[m] = name

\* A text that is exactly one valid calendar date written DD Mon YYYY: two digits, a
\* blank, a month name that begins with one of the three-letter names, a blank and
\* four digits.
IsDayMonthNameYear(t) ==
    /\ Len(t) >= 11
    /\ AllDigits(t, {1, 2} \cup (Len(t) - 3)..Len(t))
    /\ t[3] = " " /\ t[Len(t) - 4] = " "
    /\ Lower(SubSeq(t, 4, 6)) \in Month3
    /\ \A i \in 7..(Len(t) - 5) : t[i] \in Letters
    /\ MakeDate(ToInt(SubSeq(t, Len(t) - 3, Len(t))), MonthNumber(Lower(SubSeq(t, 4, 6))),
                ToInt(SubSeq(t, 1, 2))) # None

\* C25: for a text whose only date is a valid date written DD Mon YYYY, the month
\* name in any case, extract_date returns the date as YYYY-MM-DD: "15 Jan 2024" and
\* "15 JANUARY 2024" give "2024-01-15".
C25_MonthNameDate ==
    (Returned("extract_date") /\ IsDayMonthNameYear(call.text)) =>
        ret[1] = Some(SubSeq(call.text, Len(call.text) - 3, Len(call.text)) \o <<"-">>
                      \o Pad(MonthNumber(Lower(SubSeq(call.text, 4, 6))), 2) \o <<"-">>
                      \o SubSeq(call.text, 1, 2))

\* What the code does: the match of the month-name pattern has two groups, the body
\* of the loop does nothing with it, and no other pattern matches such a text.
MonthNameDateIsNone ==
    (Returned("extract_date") /\ IsDayMonthNameYear(call.text)) =>
        /\ DateSearch(2, call.text) # None
        /\ ret[1] = None

\* The calendar date the leftmost match of date_patterns[p] in s is written as: day,
\* month and year for the first pattern, day, month name and year for the second,
\* year, month and day for the third; a year of two digits is read as strptime reads
\* %y.  None when the pattern has no match or its match is no calendar date.
WrittenYear(ds) ==
    IF Len(ds) = 4 THEN ToInt(ds) ELSE IF Len(ds) = 2 THEN Year2(ds) ELSE 0

WrittenDate(p, s) ==
    IF DateSearch(p, s) = None THEN None
    ELSE LET g == DateSearch(p, s)[1]
         IN  CASE p = 1 -> MakeDate(WrittenYear(g[3]), ToInt(g[2]), ToInt(g[1]))
               [] p = 2 ->
                      LET at == MinOf({i \in 1..Len(s) : MatchDayMonthNameAt(s, i) # None})
                          name == Lower(SubSeq(s, at + Len(g[1]) + 1, at + Len(g[1]) + 3))
                      IN  MakeDate(WrittenYear(g[2]), MonthNumber(name), ToInt(g[1]))
               [] p = 3 -> MakeDate(ToInt(g[1]), ToInt(g[2]), ToInt(g[3]))

\* The result the first of the patterns in `patterns` with a valid date gives.
FirstValidDate(patterns, s) ==
    LET valid == {p \in patterns : WrittenDate(p, s) # None}
    IN  IF valid = {} THEN None ELSE Some(strftime_Ymd(WrittenDate(MinOf(valid), s)[1]))

\* A string YYYY-MM-DD that names a calendar date.
IsIsoDate(t) ==
    /\ Len(t) = 10 /\ t[5] = "-" /\ t[8] = "-"
    /\ AllDigits(t, {1, 2, 3, 4, 6, 7, 9, 10})
    /\ MakeDate(ToInt(SubSeq(t, 1, 4)), ToInt(SubSeq(t, 6, 7)), ToInt(SubSeq(t, 9, 10))) # None

\* C26: extract_date returns for every text.  A match that is no calendar date is
\* passed over and the remaining patterns are tried in their order; the first
\* pattern whose match is a calendar date gives the result, which is then a valid
\* date written YYYY-MM-DD; the result is null only when no pattern gives a date.
C26_InvalidMatchSkipped ==
    Returned("extract_date") =>
        /\ ret[1] = FirstValidDate({1, 2, 3}, call.text)
        /\ ret[1] # None => IsIsoDate(ret[1][1])

\* What the code does: the same with the month-name pattern left out, whose match
\* it never parses.
InvalidMatchSkippedByNumericPatterns ==
    Returned("extract_date") =>
        /\ ret[1] = FirstValidDate({1, 3}, call.text)
        /\ ret[1] # None => IsIsoDate(ret[1][1])

(* Properties of the threshold parameters                                  *)

\* round(m * 0.02): the nearest integer to m / 50, the even one of two at a tie.
RoundFiftieth(m) ==
    LET q == m \div 50
        r == m % 50
    IN  IF r > 25 \/ (r = 25 /\ q % 2 = 1) THEN q + 1 ELSE q

\* max(3, round(min(height, width) * 0.02)) | 1
RoundedBlockSize(h, w) ==
    LET n == RoundFiftieth(IF h < w THEN h ELSE w)
        atLeast3 == IF n > 3 THEN n ELSE 3
    IN  IF atLeast3 % 2 = 1 THEN atLeast3 ELSE atLeast3 + 1

\* C27: for every image the normaliser accepts, the block size of the adaptive
\* threshold is max(3, round(min(height, width) * 0.02)) | 1 of the decoded image's
\* height and width, an odd integer of at least 3, and the offset is 15.
C27_BlockSizeRounded ==
    (call.fn = "process_receipt" /\ loc.image # None) =>
        /\ loc.image[1].block_size =
               RoundedBlockSize(call.image_bytes.height, call.image_bytes.width)
        /\ loc.image[1].block_size % 2 = 1
        /\ loc.image[1].block_size >= 3
        /\ loc.image[1].offset = 15

\* What the code does: the block size is odd, at least 3 and never above the rounded
\* one, and the offset is 15.
BlockSizeOddAtLeastThree ==
    (call.fn = "process_receipt" /\ loc.image # None) =>
        /\ loc.image[1].block_size % 2 = 1
        /\ loc.image[1].block_size >= 3
        /\ loc.image[1].block_size <=
               RoundedBlockSize(call.image_bytes.height, call.image_bytes.width)
        /\ loc.image[1].offset = 15

(* Properties of the missing-amount check                                  *)

\* C28: whenever OCR succeeds and extract_amount returns an amount, the amount 0.00
\* included, process_receipt returns success with exactly that amount; the
\* missing-amount failure is returned only when extract_amount returns null.
C28_EveryAmountSucceeds ==
    (Returned("process_receipt") /\ Passed("Extracting")) =>
        /\ loc.amount = extract_amount(loc.text[1])
        /\ loc.amount # None =>
               /\ ret[1].success
               /\ ret[1].amount = loc.amount
        /\ ~ret[1].success => loc.amount = None

\* What the code does: the same for every amount other than zero, and the
\* missing-amount failure for the amount 0.00.
NonZeroAmountSucceeds ==
    (Returned("process_receipt") /\ Passed("Extracting")) =>
        /\ (loc.amount # None /\ loc.amount # Some(0)) =>
               /\ ret[1].success
               /\ ret[1].amount = loc.amount
        /\ loc.amount \in {None, Some(0)} => ret[1] = MissingAmountFailure(loc.text[1])

\* C29: when a line "SUBTOTAL a" comes before a line "TOTAL b", with or without a
\* rupee sign, a different from b, and no more specific total label is in the text,
\* extract_amount returns b, the amount of the total line.
C29_TotalNotSubtotal ==
    (/\ Returned("extract_amount")
     /\ Len(call.lines) = 2
     /\ call.lines[1].kind = "sub" /\ call.lines[1].cents >= 0
     /\ call.lines[2].kind = "bare" /\ call.lines[2].cents >= 0
     /\ call.lines[1].cents # call.lines[2].cents) =>
        ret[1] = Some(call.lines[2].cents)

\* What the code does: the bare pattern finds "total" inside "SUBTOTAL" first, and
\* the number of the subtotal line is returned as far as its first group of digits
\* goes.
SubtotalTakenForTotal ==
    (/\ Returned("extract_amount")
     /\ Len(call.lines) = 2
     /\ call.lines[1].kind = "sub" /\ call.lines[1].cents >= 0 /\ call.lines[1].grouped
     /\ call.lines[2].kind = "bare") =>
        ret[1] = Some(call.lines[1].cents)

(* Properties of the keyword lists                                         *)

\* C30: no listed keyword is shadowed by an earlier rule: categorize_expense called
\* with a keyword of a rule as the text and an empty merchant returns that rule's
\* category ("dinner" gives Food & Dining, "theatre" Entertainment, "stationery"
\* Office Expense, "training" Education & Courses).
C30_NoKeywordShadowed ==
    (Returned("categorize_expense") /\ "rule" \in DOMAIN call) =>
        ret[1].category = Rules[call.rule].category

\* What the code does: the keyword is answered by its own rule or by an earlier one,
\* with high confidence.
KeywordAnsweredAtOrBeforeItsRule ==
    (Returned("categorize_expense") /\ "rule" \in DOMAIN call) =>
        /\ ret[1].confidence = "high"
        /\ RuleLabelled(ret[1].reason.label) <= call.rule

=============================================================================
